---- MODULE Spec2Model ----
(***************************************************************************)
(* Model of the 01exchange (maker, "o1") <-> Lighter (taker) arbitrage     *)
(* engine: the supervisor loop of ArbStrategy, the leg executed by         *)
(* OrderManager, the PositionTracker ledger, the SpreadAnalyzer, the       *)
(* O1OrderTracker and the shutdown sequence.                               *)
(*                                                                         *)
(* Quantities are integers (multiples of the smallest size unit), prices   *)
(* are integers, an Optional value is a sequence: <<>> is None and <<v>>   *)
(* is the value v.  Time inside a leg is counted in poll intervals of      *)
(* 0.5 s.  Every answer of a venue is an input chosen with \E.             *)
(***************************************************************************)
EXTENDS Integers, Sequences, FiniteSets, TLC

VARIABLES
    order_quantity,      \* ArbStrategy.order_quantity (configuration)
    max_position,        \* PositionTracker.max_position (configuration)
    scenario,            \* the kinds of venue answers the run may meet
    warmup_samples,      \* SpreadAnalyzer.warmup_samples (configuration)
    min_spread,          \* min_spread of ArbStrategy.__init__ (configuration)
    o1_position,         \* PositionTracker.o1_position
    lighter_position,    \* PositionTracker.lighter_position
    total_long_trades,   \* PositionTracker.total_long_trades
    total_short_trades,  \* PositionTracker.total_short_trades
    long_history,        \* SpreadAnalyzer._long_history
    short_history,       \* SpreadAnalyzer._short_history
    sample_count,        \* SpreadAnalyzer._sample_count
    warmed_up,           \* SpreadAnalyzer._warmed_up
    last_diff_long,      \* SpreadAnalyzer._last_diff_long
    last_diff_short,     \* SpreadAnalyzer._last_diff_short
    avg_long,            \* SpreadAnalyzer._avg_long, <<sum, n>> is sum/n
    avg_short,           \* SpreadAnalyzer._avg_short
    o1_bbo,              \* OrderBookManager.o1_bbo
    lighter_bbo,         \* OrderBookManager.lighter_bbo
    active_orders,       \* O1OrderTracker.active_orders
    filled_orders,       \* O1OrderTracker.filled_orders
    next_order_id,       \* the order id the maker venue assigns next
    executing,           \* OrderManager._executing
    stop_flag,           \* ArbStrategy._stop_flag
    stop_reason,         \* ArbStrategy._stop_reason
    loop_count,          \* loop_count of ArbStrategy.run
    pc,                  \* position of the supervisor task
    signal,              \* signal computed by the current iteration
    leg,                 \* locals and observations of the current leg
    sweep,               \* order ids still to visit in cancel_all_orders
    cancel_sent,         \* the cancels sent to o1, in order, with their sender
    absent_seen,         \* order ids found absent by the fill poll
    lighter_orders,      \* orders sent to Lighter in the current iteration
    tick_msgs,           \* notifier messages sent in the current iteration
    trade_log,           \* rows written to the trades CSV
    busy_calls,          \* execute_* calls that returned False: a leg was in flight
    tick_obs,            \* what the balance check and the risk step of the
                         \* current iteration read and decided
    ws_age,              \* seconds since LighterClient._last_ws_ob_update
    ws_orderbook,        \* LighterClient._orderbooks[market]
    account_state,       \* LighterClient._account_state
    last_read,           \* the last read made on a venue adapter and its answer
    venue_position,      \* the positions the venues hold for the account
    close_orders,        \* the close orders sent to the venues by shutdown
    shutdown_log,        \* the steps of shutdown attempted so far, in order
    shutdown_clock,      \* seconds since main started to wait for shutdown
    reconcile,           \* locals of _close_all_positions
    alerts,              \* residual-position alerts raised by shutdown
    signals,             \* SIGINT / SIGTERM delivered: handled and ignored
    session,             \* O1Client.session_id, session_keypair and
                         \* session_created_at, the clock, and the sessions
                         \* the venue has registered
    signed,              \* the order actions signed with the session key
    ws_stream            \* the stream task of LighterClient: its client,
                         \* its watchdog and the clients created so far

configVars ==
    <<order_quantity, max_position, scenario, warmup_samples, min_spread>>
ledgerVars == <<o1_position, lighter_position, total_long_trades, total_short_trades>>
spreadVars ==
    <<long_history, short_history, sample_count, warmed_up,
      last_diff_long, last_diff_short, avg_long, avg_short>>
bookVars == <<o1_bbo, lighter_bbo>>
trackerVars == <<active_orders, filled_orders>>
stopVars == <<stop_flag, stop_reason>>
obsVars == <<cancel_sent, absent_seen, lighter_orders, tick_msgs, trade_log>>
adapterVars == <<ws_age, ws_orderbook, account_state, last_read>>
closeVars ==
    <<venue_position, close_orders, shutdown_log, shutdown_clock, reconcile,
      alerts, signals>>

sessionVars == <<session, signed>>
streamVars == <<ws_stream>>

vars ==
    <<configVars, ledgerVars, spreadVars, bookVars, trackerVars, next_order_id,
      executing, stopVars, loop_count, pc, signal, leg, sweep, obsVars,
      busy_calls, tick_obs, adapterVars, closeVars, sessionVars, streamVars>>

----------------------------------------------------------------------------
(* Bounds of the model *)

MaxQty == 2
MaxPos == 3
MaxLoops == 4
window_size == 2
MinWarmup == 2
fill_timeout == 2
MaxNarrowLoops == 5
MaxBusyCalls == 1
MaxAge == 32
MaxSamples == 4
MaxSignals == 2

(* Program constants *)

long_threshold == 10
short_threshold == 10
o1_tick_size == 10
MIN_BALANCE == 10
hedge_slippage_permille == 2
RiskMultiple == 2
DivergenceMultiple == 3
_ws_stale_threshold == 30
session_timeout == 10
cancel_timeout == 15
settle_delay == 1
max_retries == 3
MinSizeDivisor == 10
position_timeout == 10
close_timeout == 15
ioc_delay == 3
shutdown_timeout == 60
close_slippage_permille == 5

----------------------------------------------------------------------------
(* Helpers *)

None == <<>>
Some(v) == <<v>>
Abs(x) == IF x < 0 THEN -x ELSE x

\* The elements of a finite set of integers in ascending order
RECURSIVE Ascending(_)
Ascending(S) ==
    IF S = {} THEN <<>>
    ELSE LET m == CHOOSE x \in S : \A y \in S : x <= y
         IN  <<m>> \o Ascending(S \ {m})

RECURSIVE SeqSum(_)
SeqSum(s) ==
    IF s = <<>> THEN 0 ELSE Head(s) + SeqSum(Tail(s))

(* Inputs: what the venues may answer *)

O1Book == [best_bid |-> Some(10000), best_ask |-> Some(10200)]
LighterHigh == [best_bid |-> Some(15000), best_ask |-> Some(16000)]
LighterLow == [best_bid |-> Some(5000), best_ask |-> Some(6000)]
LighterNoBid == [best_bid |-> None, best_ask |-> Some(16000)]
LighterNoAsk == [best_bid |-> Some(5000), best_ask |-> None]

O1Fetch == {None, Some(O1Book)}
LighterBooks == {LighterHigh, LighterLow, LighterNoBid, LighterNoAsk}
PlaceRaw == {"posted", "rejected", "error"}
PollRaw == {"absent", "present", "error"}
CancelRaw ==
    {"session_error", "receipt_ok", "receipt_not_found", "receipt_other_error",
     "exc_not_found", "exc_other"}
CreateOrderRaw == {"ok", "error"}
BalanceRaw == {None, Some(5), Some(20)}
\* An account as a venue reports it: the USDC balance, and the position in
\* the traded market (None when the account lists no position for it)
AccountStates ==
    {[balance |-> b, position |-> p] : b \in {0, 5, 20}, p \in {None, Some(0), Some(2)}}
\* The cached account (None: nothing cached) and the answer of the REST
\* query (None: the query failed)
AccountCache == {None} \cup {Some(a) : a \in AccountStates}
AccountRest == {None} \cup {Some(a) : a \in AccountStates}

(* The answers a run may meet.  In the "wide" scenario every kind of answer
   is possible.  The "rising" and "falling" scenarios are a Lighter market
   that trends away from o1 sample after sample (every sample raises a
   long_01 signal, or every sample a short_01 signal), with fewer kinds of
   venue answers: those left out repeat the effect on the ledger of one
   that is kept. *)

\* The number of iterations of run that are explored
LoopLimit ==
    IF scenario = "wide" THEN MaxLoops ELSE MaxNarrowLoops

\* Lighter's book in a trending market once n samples have been taken
TrendBook(n) ==
    IF scenario = "rising"
    THEN [best_bid |-> Some(15000 + 1000 * n), best_ask |-> Some(15500 + 1000 * n)]
    ELSE [best_bid |-> Some(9000 - 500 * n), best_ask |-> Some(9500 - 500 * n)]

O1Fetches ==
    IF scenario = "wide" THEN O1Fetch ELSE {Some(O1Book)}

SampleBooks ==
    IF scenario = "wide" THEN LighterBooks ELSE {TrendBook(sample_count)}

HedgeBooks ==
    IF scenario = "wide" THEN LighterBooks ELSE {LighterHigh}

HeartbeatDue ==
    IF scenario = "wide" THEN BOOLEAN ELSE {FALSE}

PlaceAnswers ==
    IF scenario = "wide" THEN PlaceRaw ELSE {"posted", "rejected"}

PollAnswers ==
    IF scenario = "wide" THEN PollRaw ELSE {"absent", "present"}

CancelAnswers ==
    IF scenario = "wide" THEN CancelRaw ELSE {"receipt_ok", "exc_other"}

O1Balances ==
    IF scenario = "wide" THEN BalanceRaw ELSE {Some(5), Some(20)}

\* What a balance read of Lighter meets: staleness, cached account, REST answer
LighterBalanceInputs ==
    IF scenario = "wide"
    THEN {<<st, c, r>> : st \in BOOLEAN,
                         c \in {x \in AccountCache : x = None \/ x[1].position = None},
                         r \in {x \in AccountRest : x = None \/ x[1].position = None}}
    ELSE {<<FALSE, Some([balance |-> 20, position |-> None]), None>>}

\* The observations of an iteration before its balance check and risk step
NoTick ==
    [first |-> "none", second |-> "none", failed |-> FALSE, read_low |-> FALSE,
     risk |-> "none"]

\* No read was made on an adapter yet.  A read is kept with the age of the
\* feed when it was made, whether the venue's query was failing, where the
\* answer came from, whether the call raised, and what it returned.
NoRead ==
    [op |-> "none", age |-> None, rest_failed |-> FALSE, source |-> "none",
     raised |-> FALSE, value |-> 0, book |-> None]

\* The locals of _execute_arb and _wait_for_o1_fill, with what the leg did so far
\* _close_all_positions before its first attempt
NoReconcile ==
    [rounds |-> 0, o1_read |-> "none", lighter_read |-> "none",
     api_o1 |-> 0, api_lighter |-> 0, local_o1 |-> 0, local_lighter |-> 0,
     o1_pos |-> 0, lighter_pos |-> 0]

NoLeg ==
    [direction |-> "none", o1_side |-> "none", o1_price |-> 0, o1_size |-> 0,
     lighter_side |-> "none", place_raw |-> "none", order_id |-> 0,
     elapsed |-> 0,
     polls |-> 0, cancels |-> 0, cancel_raw |-> "none", hedge_calls |-> 0,
     hedge_bbo |-> None, outcome |-> "none", result |-> "none",
     pos0 |-> <<0, 0, 0, 0>>, tracker0 |-> <<<<>>, <<>>>>]

----------------------------------------------------------------------------
\* O1Client after connect: create_session has succeeded once, at time 0
ConnectedSession ==
    [session_id |-> Some(1), session_keypair |-> Some(1),
     session_created_at |-> 0, now |-> 0, waits |-> 0, keys_made |-> 1,
     venue_sessions |-> {<<1, 1>>}]

\* LighterClient after start_websocket: the first client and its watchdog
StartedStream ==
    [task |-> "running", client |-> "running", watchdog |-> "sleeping",
     clients |-> 1]

-----------------------------------------------------------------------------
(* PositionTracker *)

net_position ==
    o1_position + lighter_position

\* A variant of net_exposure that keeps the sign of the net position
net_exposure_signed ==
    net_position

net_exposure ==
    Abs(net_position)

can_long_o1 ==
    o1_position < max_position

can_short_o1 ==
    o1_position > -max_position

\* A variant of update_o1 that ignores the side
update_o1_always_adds(side, quantity) ==
    o1_position' = o1_position + quantity

update_o1(side, quantity) ==
    o1_position' =
        IF side = "buy" THEN o1_position + quantity ELSE o1_position - quantity

\* A variant of record_arb_trade that leaves lighter_position alone
record_arb_trade_maker_only(direction, quantity) ==
    IF direction = "long_01"
    THEN /\ o1_position' = o1_position + quantity
         /\ total_long_trades' = total_long_trades + 1
         /\ UNCHANGED <<lighter_position, total_short_trades>>
    ELSE /\ o1_position' = o1_position - quantity
         /\ total_short_trades' = total_short_trades + 1
         /\ UNCHANGED <<lighter_position, total_long_trades>>

record_arb_trade(direction, quantity) ==
    IF direction = "long_01"
    THEN /\ o1_position' = o1_position + quantity
         /\ lighter_position' = lighter_position - quantity
         /\ total_long_trades' = total_long_trades + 1
         /\ total_short_trades' = total_short_trades
    ELSE IF direction = "short_01"
    THEN /\ o1_position' = o1_position - quantity
         /\ lighter_position' = lighter_position + quantity
         /\ total_short_trades' = total_short_trades + 1
         /\ total_long_trades' = total_long_trades
    ELSE UNCHANGED ledgerVars

\* A variant of check_risk that tolerates the divergence level
check_risk_at_divergence ==
    ~(net_exposure > order_quantity * DivergenceMultiple)

check_risk ==
    ~(net_exposure > order_quantity * RiskMultiple)

----------------------------------------------------------------------------
(* SpreadAnalyzer *)

\* A variant of DequeAppend for a deque without maxlen
DequeAppend_unbounded(history, x) ==
    Append(history, x)

\* deque(maxlen = window_size).append
DequeAppend(history, x) ==
    LET appended == Append(history, x)
    IN  IF Len(appended) > window_size THEN Tail(appended) ELSE appended

\* sum(history) / len(history), kept as the pair <<sum, len>>
Mean(history) ==
    <<SeqSum(history), Len(history)>>

\* update; counted is FALSE only for the samples taken past the iterations
\* that are explored, whose number is not followed
Sample(counted, lighter_bid, lighter_ask, o1_bid, o1_ask) ==
    /\ last_diff_long' = Some(lighter_bid - o1_ask)
    /\ last_diff_short' = Some(o1_bid - lighter_ask)
    /\ long_history' = DequeAppend(long_history, lighter_bid - o1_ask)
    /\ short_history' = DequeAppend(short_history, o1_bid - lighter_ask)
    /\ sample_count' = IF counted THEN sample_count + 1 ELSE sample_count
    /\ warmed_up' = (warmed_up \/ sample_count + 1 >= warmup_samples)
    /\ avg_long' = Mean(long_history')
    /\ avg_short' = Mean(short_history')

update(lighter_bid, lighter_ask, o1_bid, o1_ask) ==
    Sample(TRUE, lighter_bid, lighter_ask, o1_bid, o1_ask)

\* diff > avg + threshold, with avg = sum / n and n > 0
ExceedsMean(diff, avg, threshold) ==
    diff[1] * avg[2] > avg[1] + threshold * avg[2]

\* A variant of check_signal that does not wait for the warm-up
check_signal_cold ==
    IF /\ last_diff_long # None
       /\ avg_long # None
       /\ ExceedsMean(last_diff_long, avg_long, long_threshold)
    THEN "long_01"
    ELSE IF /\ last_diff_short # None
            /\ avg_short # None
            /\ ExceedsMean(last_diff_short, avg_short, short_threshold)
    THEN "short_01"
    ELSE "none"

check_signal ==
    IF ~warmed_up THEN "none"
    ELSE IF /\ last_diff_long # None
            /\ avg_long # None
            /\ ExceedsMean(last_diff_long, avg_long, long_threshold)
    THEN "long_01"
    ELSE IF /\ last_diff_short # None
            /\ avg_short # None
            /\ ExceedsMean(last_diff_short, avg_short, short_threshold)
    THEN "short_01"
    ELSE "none"

----------------------------------------------------------------------------
(* OrderBookManager *)

\* refresh_lighter keeps the cached BBO; refresh_o1 keeps the old one on failure
refresh_all(o1_fetch, ws_bbo) ==
    /\ lighter_bbo' = Some(ws_bbo)
    /\ o1_bbo' = IF o1_fetch = None THEN o1_bbo ELSE o1_fetch

is_ready ==
    /\ o1_bbo # None
    /\ lighter_bbo # None
    /\ o1_bbo[1].best_bid # None
    /\ o1_bbo[1].best_ask # None
    /\ lighter_bbo[1].best_bid # None
    /\ lighter_bbo[1].best_ask # None

----------------------------------------------------------------------------
(* O1OrderTracker: active_orders maps an order id to its record *)

add_order(order_id, side, price, size) ==
    active_orders' =
        [id \in DOMAIN active_orders \cup {order_id} |->
            IF id = order_id
            THEN [order_id |-> order_id, side |-> side, price |-> price,
                  size |-> size, status |-> "OPEN"]
            ELSE active_orders[id]]

\* A variant of mark_filled that does not pop the record from active_orders
mark_filled_keeps_active(order_id) ==
    IF order_id \in DOMAIN active_orders
    THEN /\ filled_orders' =
             Append(filled_orders, [active_orders[order_id] EXCEPT !.status = "FILLED"])
         /\ UNCHANGED active_orders
    ELSE UNCHANGED trackerVars

\* A variant of mark_filled that records a fill for any order id
mark_filled_unguarded(order_id) ==
    IF order_id \in DOMAIN active_orders
    THEN /\ active_orders' =
             [id \in DOMAIN active_orders \ {order_id} |-> active_orders[id]]
         /\ filled_orders' =
             Append(filled_orders, [active_orders[order_id] EXCEPT !.status = "FILLED"])
    ELSE /\ filled_orders' =
             Append(filled_orders,
                    [order_id |-> order_id, side |-> "none", price |-> 0,
                     size |-> 0, status |-> "FILLED"])
         /\ UNCHANGED active_orders

mark_filled(order_id) ==
    IF order_id \in DOMAIN active_orders
    THEN /\ active_orders' =
             [id \in DOMAIN active_orders \ {order_id} |-> active_orders[id]]
         /\ filled_orders' =
             Append(filled_orders, [active_orders[order_id] EXCEPT !.status = "FILLED"])
    ELSE UNCHANGED trackerVars

\* A variant of mark_cancelled that does not pop the record
mark_cancelled_keeps_active(order_id) ==
    UNCHANGED trackerVars

mark_cancelled(order_id) ==
    /\ active_orders' =
         [id \in DOMAIN active_orders \ {order_id} |-> active_orders[id]]
    /\ UNCHANGED filled_orders

FilledIds ==
    {filled_orders[i].order_id : i \in DOMAIN filled_orders}

----------------------------------------------------------------------------
(* O1ExchangeClient: what the adapter makes of the venue's raw answer *)

\* place_order: the receipt names the posted order, or the call raises
O1_place_order(raw) ==
    [raised |-> raw # "posted"]

\* get_position: the size found in the account data, 0 when the market is
\* not listed and 0 when the account query failed
O1_get_position(raw) ==
    IF raw = None
    THEN [raised |-> FALSE, value |-> 0, source |-> "none"]
    ELSE [raised |-> FALSE,
          value |-> IF raw[1].position = None THEN 0 ELSE raw[1].position[1],
          source |-> "rest"]

\* cancel_order: True, False or an exception (with the text it carries)
cancel_order(raw) ==
    IF raw = "receipt_ok"
    THEN [raised |-> FALSE, value |-> TRUE, order_not_found_text |-> FALSE]
    ELSE IF raw = "receipt_not_found"
    THEN [raised |-> FALSE, value |-> FALSE, order_not_found_text |-> FALSE]
    ELSE IF raw = "receipt_other_error"
    THEN [raised |-> FALSE, value |-> FALSE, order_not_found_text |-> FALSE]
    ELSE IF raw = "exc_not_found"
    THEN [raised |-> FALSE, value |-> FALSE, order_not_found_text |-> FALSE]
    ELSE [raised |-> TRUE, value |-> FALSE, order_not_found_text |-> FALSE]

\* The venue reported that the order does not exist
IsNotFound(raw) ==
    raw \in {"receipt_not_found", "exc_not_found"}

\* The cancel failed with an error that is not a not-found error
IsOtherError(raw) ==
    raw \in {"session_error", "receipt_other_error", "exc_other"}

\* The open-orders query used by the fill poll: the ids resting on the venue
_get_open_orders_from_api(raw, order_id) ==
    [raised |-> raw = "error",
     open_orders |-> IF raw = "present" THEN {order_id} ELSE {}]

----------------------------------------------------------------------------
(* LighterClient *)

Slip(price, permille) ==
    (price * permille) \div 1000

\* place_order: the order handed to the signer, and whether the call raised
Lighter_place_order(side, price, size, order_type, reduce_only, raw) ==
    [raised |-> raw # "ok",
     price |-> price,
     sent |-> <<[side |-> side, price |-> price, size |-> size,
                 order_type |-> order_type, reduce_only |-> reduce_only]>>]

\* A variant of is_ws_stale that is stale from the threshold on
is_ws_stale_at_threshold ==
    /\ ws_age # None
    /\ ws_age[1] >= _ws_stale_threshold

\* is_ws_stale: no update received yet does not count as stale
is_ws_stale ==
    /\ ws_age # None
    /\ ws_age[1] > _ws_stale_threshold

get_ws_bbo ==
    ws_orderbook

\* get_position: the cached account when the feed is fresh and lists the
\* market, else the REST query; a failed query raises only when stale
Lighter_get_position(ws_stale, state, rest) ==
    IF state # None /\ ~ws_stale /\ state[1].position # None
    THEN [raised |-> FALSE, value |-> state[1].position[1], source |-> "cache"]
    ELSE IF rest # None
    THEN [raised |-> FALSE,
          value |-> IF rest[1].position = None THEN 0 ELSE rest[1].position[1],
          source |-> "rest"]
    ELSE IF ws_stale
    THEN [raised |-> TRUE, value |-> 0, source |-> "none"]
    ELSE [raised |-> FALSE, value |-> 0, source |-> "none"]

\* A variant of Lighter_get_balance in which a failed query never raises
Lighter_get_balance_quiet(ws_stale, state, rest) ==
    IF state # None /\ ~ws_stale /\ state[1].balance # 0
    THEN [raised |-> FALSE, value |-> state[1].balance, source |-> "cache"]
    ELSE IF rest # None
    THEN [raised |-> FALSE, value |-> rest[1].balance, source |-> "rest"]
    ELSE [raised |-> FALSE, value |-> 0, source |-> "none"]

\* get_balance: the cached balance when the feed is fresh and the balance is
\* not zero, else the REST query; a failed query raises only when stale
Lighter_get_balance(ws_stale, state, rest) ==
    IF state # None /\ ~ws_stale /\ state[1].balance # 0
    THEN [raised |-> FALSE, value |-> state[1].balance, source |-> "cache"]
    ELSE IF rest # None
    THEN [raised |-> FALSE, value |-> rest[1].balance, source |-> "rest"]
    ELSE IF ws_stale
    THEN [raised |-> TRUE, value |-> 0, source |-> "none"]
    ELSE [raised |-> FALSE, value |-> 0, source |-> "none"]

place_taker_order(side, size, slippage, bbo, raw) ==
    IF side = "buy"
    THEN IF bbo.best_ask = None
         THEN [raised |-> TRUE, price |-> 0, sent |-> <<>>]
         ELSE Lighter_place_order(side,
                  bbo.best_ask[1] + Slip(bbo.best_ask[1], slippage),
                  size, "ioc", FALSE, raw)
    ELSE IF bbo.best_bid = None
         THEN [raised |-> TRUE, price |-> 0, sent |-> <<>>]
         ELSE Lighter_place_order(side,
                  bbo.best_bid[1] - Slip(bbo.best_bid[1], slippage),
                  size, "ioc", FALSE, raw)

----------------------------------------------------------------------------
(* OrderManager *)

is_busy ==
    executing

\* A variant of LegReturns whose finally clause leaves the flag set
LegReturns_keeps_busy(raw, result, outcome) ==
    /\ leg' = [leg EXCEPT !.place_raw = raw, !.result = result,
                          !.outcome = outcome]
    /\ UNCHANGED executing
    /\ pc' = "leg_return"

\* The return of execute_long_o1 / execute_short_o1: the result of
\* _execute_arb, and the finally clause that clears the flag
LegReturns(raw, result, outcome) ==
    /\ leg' = [leg EXCEPT !.place_raw = raw, !.result = result,
                          !.outcome = outcome]
    /\ executing' = FALSE
    /\ pc' = "leg_return"

_execute_arb(direction, o1_side, o1_price, lighter_side) ==
    /\ leg' = [NoLeg EXCEPT !.direction = direction, !.o1_side = o1_side,
                            !.o1_price = o1_price, !.o1_size = order_quantity,
                            !.lighter_side = lighter_side, !.outcome = "running",
                            !.pos0 = <<o1_position, lighter_position,
                                       total_long_trades, total_short_trades>>,
                            !.tracker0 = <<active_orders, filled_orders>>]
    /\ pc' = "leg_post"

\* A variant of execute_long_o1 that hedges on the side of the maker order
execute_long_o1_same_side(o1_ask, lighter_bid) ==
    /\ executing' = TRUE
    /\ UNCHANGED busy_calls
    /\ _execute_arb("long_01", "buy", o1_ask - o1_tick_size, "buy")

execute_long_o1(o1_ask, lighter_bid) ==
    IF executing
    THEN \* returns False; a Supervisor that made the call ends its iteration
         /\ busy_calls' = busy_calls + 1
         /\ pc' = IF pc = "tick_risk" THEN "loop" ELSE pc
         /\ UNCHANGED <<leg, executing>>
    ELSE /\ executing' = TRUE
         /\ UNCHANGED busy_calls
         /\ _execute_arb("long_01", "buy", o1_ask - o1_tick_size, "sell")

\* A variant of execute_short_o1 without the check of the flag
execute_short_o1_unguarded(o1_bid, lighter_ask) ==
    /\ executing' = TRUE
    /\ UNCHANGED busy_calls
    /\ _execute_arb("short_01", "sell", o1_bid + o1_tick_size, "buy")

execute_short_o1(o1_bid, lighter_ask) ==
    IF executing
    THEN \* returns False; a Supervisor that made the call ends its iteration
         /\ busy_calls' = busy_calls + 1
         /\ pc' = IF pc = "tick_risk" THEN "loop" ELSE pc
         /\ UNCHANGED <<leg, executing>>
    ELSE /\ executing' = TRUE
         /\ UNCHANGED busy_calls
         /\ _execute_arb("short_01", "sell", o1_bid + o1_tick_size, "buy")

\* Phase 1 of _execute_arb: the post-only order on o1
LegPost ==
    /\ pc = "leg_post"
    /\ \E raw \in PlaceAnswers :
          IF ~O1_place_order(raw).raised
          THEN /\ add_order(next_order_id, leg.o1_side, leg.o1_price, leg.o1_size)
               /\ next_order_id' = next_order_id + 1
               \* _wait_for_o1_fill starts with sleep(1.0): two poll intervals
               /\ leg' = [leg EXCEPT !.place_raw = raw,
                                     !.order_id = next_order_id, !.elapsed = 2]
               /\ pc' = "leg_poll"
               /\ UNCHANGED <<filled_orders, executing>>
          ELSE /\ LegReturns(raw, "None", "post_failed")
               /\ UNCHANGED <<trackerVars, next_order_id>>
    /\ UNCHANGED <<configVars, closeVars, sessionVars, streamVars, adapterVars, busy_calls, tick_obs, ledgerVars, spreadVars, bookVars, stopVars,
                   loop_count, signal, sweep, obsVars>>

\* The loop condition of _wait_for_o1_fill: time.time() - start < fill_timeout
InPollWindow ==
    leg.elapsed < 2 * fill_timeout

\* One round of the poll loop of _wait_for_o1_fill
LegPoll ==
    /\ pc = "leg_poll"
    /\ InPollWindow
    /\ \E raw \in PollAnswers :
          LET r == _get_open_orders_from_api(raw, leg.order_id)
          IN  IF ~r.raised /\ leg.order_id \notin r.open_orders
              THEN /\ mark_filled(leg.order_id)
                   /\ absent_seen' = absent_seen \cup {leg.order_id}
                   /\ leg' = [leg EXCEPT !.polls = @ + 1]
                   /\ pc' = "leg_hedge"
              ELSE /\ leg' = [leg EXCEPT !.polls = @ + 1, !.elapsed = @ + 1]
                   /\ UNCHANGED <<trackerVars, absent_seen, pc>>
    /\ UNCHANGED <<configVars, closeVars, sessionVars, streamVars, adapterVars, busy_calls, tick_obs, ledgerVars, spreadVars, bookVars, next_order_id,
                   executing, stopVars, loop_count, signal, sweep,
                   cancel_sent, lighter_orders, tick_msgs, trade_log>>

\* A variant of TimeoutVerdict that takes every returned answer as a cancel
TimeoutVerdict_false_is_cancelled(res) ==
    IF ~res.raised THEN "cancelled" ELSE "unresolved"

\* What _wait_for_o1_fill makes of the answer of the timeout cancel
TimeoutVerdict(res) ==
    IF ~res.raised
    THEN IF res.value THEN "cancelled" ELSE "filled"
    ELSE IF res.order_not_found_text THEN "filled" ELSE "unresolved"

\* The end of _wait_for_o1_fill: the window is over, the order is cancelled
LegTimeoutCancel ==
    /\ pc = "leg_poll"
    /\ ~InPollWindow
    /\ \E raw \in CancelAnswers :
          LET verdict == TimeoutVerdict(cancel_order(raw))
          IN  /\ cancel_sent' =
                    Append(cancel_sent, [order_id |-> leg.order_id, by |-> "leg"])
              /\ IF verdict = "filled"
                 THEN /\ mark_filled(leg.order_id)
                      /\ leg' = [leg EXCEPT !.cancels = @ + 1, !.cancel_raw = raw]
                      /\ pc' = "leg_hedge"
                      /\ UNCHANGED executing
                 ELSE /\ IF verdict = "cancelled"
                         THEN mark_cancelled(leg.order_id)
                         ELSE UNCHANGED trackerVars
                      /\ leg' = [leg EXCEPT !.cancels = @ + 1, !.cancel_raw = raw,
                                            !.result = "None", !.outcome = verdict]
                      /\ executing' = FALSE
                      /\ pc' = "leg_return"
    /\ UNCHANGED <<configVars, closeVars, sessionVars, streamVars, adapterVars, busy_calls, tick_obs, ledgerVars, spreadVars, bookVars, next_order_id,
                   stopVars, loop_count, signal, sweep,
                   absent_seen, lighter_orders, tick_msgs, trade_log>>

\* A variant of EstimatedFillPrice that takes the submitted limit price
EstimatedFillPrice_submitted(hedge_bbo, lighter_side, lighter_submitted_price) ==
    lighter_submitted_price

\* The fill price assumed for the hedge
EstimatedFillPrice(hedge_bbo, lighter_side, lighter_submitted_price) ==
    IF hedge_bbo # None
    THEN IF lighter_side = "sell"
         THEN hedge_bbo[1].best_bid[1]
         ELSE hedge_bbo[1].best_ask[1]
    ELSE lighter_submitted_price

SpreadCaptured(direction, estimated_fill_price, o1_price) ==
    IF direction = "long_01"
    THEN estimated_fill_price - o1_price
    ELSE o1_price - estimated_fill_price

\* Phase 3 of _execute_arb: the taker order on Lighter and the ledger
LegHedge ==
    /\ pc = "leg_hedge"
    /\ \E ws \in HedgeBooks, raw \in CreateOrderRaw :
          LET hedge_bbo == Some(ws)
              r == place_taker_order(leg.lighter_side, order_quantity,
                                     hedge_slippage_permille, ws, raw)
              price == EstimatedFillPrice(hedge_bbo, leg.lighter_side, r.price)
          IN  /\ lighter_orders' = lighter_orders \o r.sent
              /\ IF r.raised
                 THEN /\ update_o1(leg.o1_side, order_quantity)
                      /\ UNCHANGED <<lighter_position, total_long_trades,
                                     total_short_trades, trade_log>>
                      /\ leg' = [leg EXCEPT !.hedge_calls = @ + 1,
                                            !.hedge_bbo = hedge_bbo,
                                            !.result = "None",
                                            !.outcome = "hedge_failed"]
                 ELSE /\ record_arb_trade(leg.direction, order_quantity)
                      /\ trade_log' = Append(trade_log,
                            [direction |-> leg.direction,
                             o1_side |-> leg.o1_side,
                             o1_price |-> leg.o1_price,
                             o1_size |-> order_quantity,
                             lighter_side |-> leg.lighter_side,
                             lighter_price |-> price,
                             lighter_size |-> order_quantity,
                             spread_captured |->
                                 SpreadCaptured(leg.direction, price, leg.o1_price),
                             o1_position |-> o1_position',
                             lighter_position |-> lighter_position'])
                      /\ leg' = [leg EXCEPT !.hedge_calls = @ + 1,
                                            !.hedge_bbo = hedge_bbo,
                                            !.result = "dict",
                                            !.outcome = "hedged"]
    /\ executing' = FALSE
    /\ pc' = "leg_return"
    /\ UNCHANGED <<configVars, closeVars, sessionVars, streamVars, adapterVars, busy_calls, tick_obs, spreadVars, bookVars, trackerVars, next_order_id,
                   stopVars, loop_count, signal, sweep,
                   cancel_sent, absent_seen, tick_msgs>>

----------------------------------------------------------------------------
(* ArbStrategy *)

request_stop(reason) ==
    /\ stop_reason' = reason
    /\ stop_flag' = TRUE

\* _main_loop_iteration, steps 1 to 5: refresh, sample, signal, heartbeat,
\* warm-up check.  Entered from the loop head of run.
\* A variant of SkipTick in which a skipped tick starts the warm-up again
SkipTick_restarts_warmup ==
    /\ warmed_up' = FALSE
    /\ UNCHANGED <<long_history, short_history, sample_count, last_diff_long,
                   last_diff_short, avg_long, avg_short>>
    /\ signal' = "none"
    /\ tick_msgs' = {}
    /\ pc' = "loop"

\* _main_loop_iteration returns when refresh_all reports an incomplete book
SkipTick ==
    /\ UNCHANGED spreadVars
    /\ signal' = "none"
    /\ tick_msgs' = {}
    /\ pc' = "loop"

IterationSample ==
    /\ pc = "loop"
    /\ ~stop_flag
    \* iterations past the limit are explored only while trading is paused
    /\ loop_count < LoopLimit \/ ~check_risk
    /\ loop_count' = IF loop_count < LoopLimit THEN loop_count + 1 ELSE loop_count
    /\ leg' = NoLeg
    /\ tick_obs' = NoTick
    /\ lighter_orders' = <<>>
    /\ \E o1_fetch \in O1Fetches, ws_bbo \in SampleBooks,
          heartbeat_due \in HeartbeatDue :
          /\ refresh_all(o1_fetch, ws_bbo)
          /\ IF ~is_ready'
             THEN SkipTick
             ELSE /\ IF loop_count < LoopLimit
                     THEN update(lighter_bbo'[1].best_bid[1],
                                 lighter_bbo'[1].best_ask[1],
                                 o1_bbo'[1].best_bid[1], o1_bbo'[1].best_ask[1])
                     ELSE Sample(FALSE, lighter_bbo'[1].best_bid[1],
                                 lighter_bbo'[1].best_ask[1],
                                 o1_bbo'[1].best_bid[1], o1_bbo'[1].best_ask[1])
                  /\ signal' = check_signal'
                  /\ tick_msgs' = IF heartbeat_due THEN {"heartbeat"} ELSE {}
                  /\ pc' = IF warmed_up' THEN "tick_balance" ELSE "loop"
    /\ UNCHANGED <<configVars, closeVars, sessionVars, streamVars, adapterVars, busy_calls, ledgerVars, trackerVars,
                   next_order_id, executing, stopVars, sweep,
                   cancel_sent, absent_seen, trade_log>>

\* O1ExchangeClient.get_balance: a failed account query reads as a balance of 0
O1_get_balance(raw) ==
    IF raw = None THEN 0 ELSE raw[1]

BelowFloor(o1_balance, lighter_balance) ==
    o1_balance < MIN_BALANCE \/ lighter_balance < MIN_BALANCE

\* The balance of Lighter as _check_balances receives it: None when
\* get_balance raised
LighterReading(r) ==
    IF r.raised THEN None ELSE Some(r.value)

\* _check_balances up to the sleep before the confirming read
_check_balances(o1_raw, lighter_res) ==
    IF lighter_res = None
    THEN pc' = "tick_risk"
    ELSE IF BelowFloor(O1_get_balance(o1_raw), lighter_res[1])
    THEN pc' = "tick_balance_confirm"
    ELSE pc' = "tick_risk"

\* A variant of _check_balances_confirm that stops on any confirming read
_check_balances_confirm_any(o1_raw2, lighter_res2) ==
    IF lighter_res2 = None
    THEN UNCHANGED stopVars
    ELSE /\ stop_reason' = "insufficient_funds"
         /\ stop_flag' = TRUE

\* _check_balances after the sleep: the confirming read of both balances
_check_balances_confirm(o1_raw2, lighter_res2) ==
    IF lighter_res2 = None
    THEN UNCHANGED stopVars
    ELSE IF BelowFloor(O1_get_balance(o1_raw2), lighter_res2[1])
    THEN /\ stop_reason' = "insufficient_funds"
         /\ stop_flag' = TRUE
    ELSE UNCHANGED stopVars

\* Whether a query of the read failed: o1's account query returned nothing,
\* or Lighter had no cached balance to use and its REST query failed
QueryFailed(o1_raw, r) ==
    o1_raw = None \/ r.source = "none"

\* Whether a query of the read that succeeded returned a balance below the
\* floor
ReadLow(o1_raw, r) ==
    \/ o1_raw # None /\ o1_raw[1] < MIN_BALANCE
    \/ r.source # "none" /\ r.value < MIN_BALANCE

\* What a read of both balances showed
ReadingKind(o1_raw, lighter_res) ==
    IF lighter_res = None THEN "skipped"
    ELSE IF BelowFloor(O1_get_balance(o1_raw), lighter_res[1]) THEN "low"
    ELSE "ok"

\* _main_loop_iteration, step 6: the balance check when it is due
IterationBalance ==
    /\ pc = "tick_balance"
    /\ \E due \in BOOLEAN, o1_raw \in O1Balances, l \in LighterBalanceInputs :
          LET r == Lighter_get_balance(l[1], l[2], l[3])
          IN  IF due
              THEN /\ _check_balances(o1_raw, LighterReading(r))
                   /\ tick_obs' =
                         [tick_obs EXCEPT
                             !.first = ReadingKind(o1_raw, LighterReading(r)),
                             !.failed = QueryFailed(o1_raw, r),
                             !.read_low = ReadLow(o1_raw, r)]
              ELSE /\ pc' = "tick_risk"
                   /\ tick_obs' = [tick_obs EXCEPT !.first = "not_due"]
    /\ UNCHANGED <<configVars, closeVars, sessionVars, streamVars, adapterVars, busy_calls, ledgerVars, spreadVars,
                   bookVars, trackerVars, next_order_id, executing, stopVars,
                   loop_count, signal, leg, sweep, obsVars>>

\* _check_balances, the confirming read 3 s after a reading below the floor
IterationBalanceConfirm ==
    /\ pc = "tick_balance_confirm"
    /\ \E o1_raw2 \in O1Balances, l \in LighterBalanceInputs :
          LET r == Lighter_get_balance(l[1], l[2], l[3])
          IN  /\ _check_balances_confirm(o1_raw2, LighterReading(r))
              /\ tick_obs' =
                    [tick_obs EXCEPT
                        !.second = ReadingKind(o1_raw2, LighterReading(r)),
                        !.failed = (tick_obs.failed \/ QueryFailed(o1_raw2, r)),
                        !.read_low = (tick_obs.read_low \/ ReadLow(o1_raw2, r))]
    /\ pc' = "tick_risk"
    /\ UNCHANGED <<configVars, closeVars, sessionVars, streamVars, adapterVars, busy_calls, ledgerVars, spreadVars,
                   bookVars, trackerVars, next_order_id, executing,
                   loop_count, signal, leg, sweep, obsVars>>

\* _handle_signal up to the call of the OrderManager
_handle_signal(sig, o1_bid, o1_ask, lighter_bid, lighter_ask) ==
    IF sig = "long_01"
    THEN IF ~can_long_o1
         THEN /\ pc' = "loop"
              /\ UNCHANGED <<leg, executing, busy_calls>>
         ELSE execute_long_o1(o1_ask, lighter_bid)
    ELSE IF sig = "short_01"
    THEN IF ~can_short_o1
         THEN /\ pc' = "loop"
              /\ UNCHANGED <<leg, executing, busy_calls>>
         ELSE execute_short_o1(o1_bid, lighter_ask)
    ELSE /\ pc' = "loop"
         /\ UNCHANGED <<leg, executing, busy_calls>>

\* _main_loop_iteration, steps 7 to 8: risk check, divergence guard, signal
IterationTrade ==
    /\ pc = "tick_risk"
    /\ IF ~check_risk
       THEN /\ pc' = "loop"
            /\ tick_obs' = [NoTick EXCEPT !.risk = "paused"]
            /\ UNCHANGED <<leg, executing, busy_calls, stopVars, tick_msgs>>
       ELSE IF net_exposure > order_quantity * DivergenceMultiple
       THEN /\ request_stop("divergence")
            /\ tick_msgs' = tick_msgs \cup {"divergence_alert"}
            /\ pc' = "loop"
            /\ tick_obs' = [NoTick EXCEPT !.risk = "diverged"]
            /\ UNCHANGED <<leg, executing, busy_calls>>
       ELSE IF signal # "none" /\ ~is_busy
       THEN /\ _handle_signal(signal, o1_bbo[1].best_bid[1], o1_bbo[1].best_ask[1],
                              lighter_bbo[1].best_bid[1], lighter_bbo[1].best_ask[1])
            /\ tick_obs' = [NoTick EXCEPT !.risk = "clear"]
            /\ UNCHANGED <<stopVars, tick_msgs>>
       ELSE /\ pc' = "loop"
            /\ tick_obs' = [NoTick EXCEPT !.risk = "clear"]
            /\ UNCHANGED <<leg, executing, busy_calls, stopVars, tick_msgs>>
    /\ UNCHANGED <<configVars, closeVars, sessionVars, streamVars, adapterVars, ledgerVars, spreadVars, bookVars, trackerVars,
                   next_order_id, loop_count, signal, sweep,
                   cancel_sent, absent_seen, lighter_orders, trade_log>>

\* The end of _handle_signal: the trade notification for a completed leg
HandleSignalReturn ==
    /\ pc = "leg_return"
    /\ tick_msgs' =
          IF leg.result = "dict" THEN tick_msgs \cup {"trade"} ELSE tick_msgs
    /\ pc' = "loop"
    /\ UNCHANGED <<configVars, closeVars, sessionVars, streamVars, adapterVars, busy_calls, tick_obs, ledgerVars, spreadVars, bookVars, trackerVars,
                   next_order_id, executing, stopVars, loop_count, signal, leg,
                   sweep, cancel_sent, absent_seen, lighter_orders, trade_log>>

\* A call of execute_long_o1 / execute_short_o1 that arrives while a leg is
\* in flight (the Supervisor makes no such call: it tests is_busy first)
ReentrantCall ==
    /\ pc \in {"leg_post", "leg_poll", "leg_hedge"}
    /\ busy_calls < MaxBusyCalls
    /\ \E direction \in {"long_01", "short_01"} :
          IF direction = "long_01"
          THEN execute_long_o1(o1_bbo[1].best_ask[1], lighter_bbo[1].best_bid[1])
          ELSE execute_short_o1(o1_bbo[1].best_bid[1], lighter_bbo[1].best_ask[1])
    /\ UNCHANGED <<configVars, closeVars, sessionVars, streamVars, adapterVars, tick_obs, ledgerVars, spreadVars,
                   bookVars, trackerVars, next_order_id, stopVars, loop_count,
                   signal, sweep, obsVars>>

\* A variant of Running in which main never resets the handlers
Running_until_exit ==
    pc # "exited"

\* The handlers of SIGINT / SIGTERM are installed until main's finally clause
Running ==
    pc \in {"loop", "tick_balance", "tick_balance_confirm", "tick_risk",
            "leg_post", "leg_poll",
            "leg_hedge", "leg_return"}

signal_handler ==
    /\ Running
    /\ request_stop("user")
    /\ UNCHANGED <<configVars, closeVars, sessionVars, streamVars, adapterVars, busy_calls, tick_obs, ledgerVars, spreadVars, bookVars, trackerVars,
                   next_order_id, executing, loop_count, pc, signal, leg, sweep,
                   obsVars>>

\* A variant of RunExit in which shutdown starts at any await of the run
RunExit_at_any_await ==
    /\ Running
    /\ stop_flag
    /\ stop_flag' = TRUE
    /\ pc' = "shutdown_session"
    /\ UNCHANGED <<configVars, closeVars, sessionVars, streamVars, adapterVars, busy_calls, tick_obs, ledgerVars, spreadVars, bookVars, trackerVars,
                   next_order_id, executing, stop_reason, loop_count, signal, leg,
                   sweep, obsVars>>

\* run leaves its loop; main's finally clause ignores further signals and
\* calls shutdown, which sets the stop flag
RunExit ==
    /\ pc = "loop"
    /\ stop_flag
    /\ stop_flag' = TRUE
    /\ pc' = "shutdown_session"
    /\ UNCHANGED <<configVars, closeVars, sessionVars, streamVars, adapterVars, busy_calls, tick_obs, ledgerVars, spreadVars, bookVars, trackerVars,
                   next_order_id, executing, stop_reason, loop_count, signal, leg,
                   sweep, obsVars>>

\* shutdown, step 0: the session of o1 is created again (a failure is only
\* logged); then cancel_all_orders lists the orders the tracker holds as
\* active, in the order they were added
ShutdownSession ==
    /\ pc = "shutdown_session"
    /\ sweep' = Ascending(DOMAIN active_orders)
    /\ pc' = "shutdown_cancel_o1"
    /\ UNCHANGED <<configVars, closeVars, sessionVars, streamVars, adapterVars, busy_calls, tick_obs, ledgerVars, spreadVars, bookVars, trackerVars,
                   next_order_id, executing, stopVars, loop_count, signal, leg,
                   obsVars>>

\* One round of the loop of O1ExchangeClient.cancel_all_orders
ShutdownCancelO1 ==
    /\ pc = "shutdown_cancel_o1"
    /\ sweep # <<>>
    /\ \E raw \in CancelAnswers :
          LET oid == Head(sweep)
              res == cancel_order(raw)
          IN  /\ cancel_sent' =
                    Append(cancel_sent, [order_id |-> oid, by |-> "sweep"])
              /\ IF res.raised
                 THEN UNCHANGED trackerVars
                 ELSE IF res.value
                 THEN mark_cancelled(oid)
                 ELSE mark_filled(oid)
    /\ sweep' = Tail(sweep)
    /\ UNCHANGED <<configVars, closeVars, sessionVars, streamVars, adapterVars, busy_calls, tick_obs, ledgerVars, spreadVars, bookVars, next_order_id,
                   executing, stopVars, loop_count, pc, signal, leg,
                   absent_seen, lighter_orders, tick_msgs, trade_log>>

\* cancel_all_orders of o1 is over (or its 15 s budget is), and the sweep of
\* Lighter, whose outcome is only logged, has run
ShutdownCancelLighter ==
    /\ pc = "shutdown_cancel_o1"
    /\ \E timed_out \in BOOLEAN : sweep = <<>> \/ timed_out
    /\ sweep' = <<>>
    /\ pc' = "shutdown_close"
    /\ UNCHANGED <<configVars, closeVars, sessionVars, streamVars, adapterVars, busy_calls, tick_obs, ledgerVars, spreadVars, bookVars, trackerVars,
                   next_order_id, executing, stopVars, loop_count, signal, leg,
                   obsVars>>

\* shutdown, steps 4 to 7: the positions are closed on the venues (the
\* ledger is only read), the adapters disconnect, the logs close and the
\* stop notification is sent
ShutdownFinish ==
    /\ pc = "shutdown_close"
    /\ tick_msgs' = tick_msgs \cup {"stop"}
    /\ pc' = "exited"
    /\ UNCHANGED <<configVars, closeVars, sessionVars, streamVars, adapterVars, busy_calls, tick_obs, ledgerVars, spreadVars, bookVars, trackerVars,
                   next_order_id, executing, stopVars, loop_count, signal, leg,
                   sweep, cancel_sent, absent_seen, lighter_orders, trade_log>>

----------------------------------------------------------------------------
(* The program *)

\* The ledger after PositionTracker.__init__
EmptyLedger == <<0, 0>>

\* The state after ArbStrategy.__init__ and initialize, for the
\* configurations and the scenario given; accounts are the ledgers
\* <<o1_position, lighter_position>> the run starts from, each with the
\* positions <<o1, lighter>> the venues hold at that time
InitVenues(sc, quantities, limits, accounts, warmups, floors) ==
    /\ scenario = sc
    /\ warmup_samples \in warmups
    /\ min_spread \in floors
    /\ order_quantity \in quantities
    /\ max_position \in limits
    /\ \E account \in accounts :
          /\ o1_position = account.ledger[1]
          /\ lighter_position = account.ledger[2]
          /\ venue_position =
                [o1 |-> account.venue[1], lighter |-> account.venue[2]]
    /\ total_long_trades = 0
    /\ total_short_trades = 0
    /\ long_history = <<>>
    /\ short_history = <<>>
    /\ sample_count = 0
    /\ warmed_up = FALSE
    /\ last_diff_long = None
    /\ last_diff_short = None
    /\ avg_long = None
    /\ avg_short = None
    /\ o1_bbo = None
    /\ lighter_bbo = None
    /\ active_orders = <<>>
    /\ filled_orders = <<>>
    /\ next_order_id = 1
    /\ executing = FALSE
    /\ stop_flag = FALSE
    /\ stop_reason = "unknown"
    /\ loop_count = 0
    /\ pc = "loop"
    /\ signal = "none"
    /\ leg = NoLeg
    /\ sweep = <<>>
    /\ cancel_sent = <<>>
    /\ absent_seen = {}
    /\ lighter_orders = <<>>
    /\ tick_msgs = {}
    /\ trade_log = <<>>
    /\ busy_calls = 0
    /\ tick_obs = NoTick
    /\ ws_age = None
    /\ ws_orderbook = None
    /\ account_state = None
    /\ last_read = NoRead
    /\ close_orders = <<>>
    /\ shutdown_log = <<>>
    /\ shutdown_clock = 0
    /\ reconcile = NoReconcile
    /\ alerts = <<>>
    /\ signals = [handled |-> 0, ignored |-> 0]
    /\ session = ConnectedSession
    /\ signed = <<>>
    /\ ws_stream = StartedStream

\* The same with venues that hold what the ledger says
InitWith(sc, quantities, limits, ledgers, warmups, floors) ==
    InitVenues(sc, quantities, limits,
               {[ledger |-> l, venue |-> l] : l \in ledgers}, warmups, floors)

Init ==
    InitWith("wide", 1..MaxQty, {MaxPos - 1, MaxPos}, {EmptyLedger}, {MinWarmup}, {0})

Next ==
    \/ IterationSample
    \/ IterationBalance
    \/ IterationBalanceConfirm
    \/ IterationTrade
    \/ LegPost
    \/ LegPoll
    \/ LegTimeoutCancel
    \/ LegHedge
    \/ HandleSignalReturn
    \/ signal_handler
    \/ RunExit
    \/ ShutdownSession
    \/ ShutdownCancelO1
    \/ ShutdownCancelLighter
    \/ ShutdownFinish

Spec ==
    Init /\ [][Next]_vars

\* Runs of one configuration in a trending market
InitNarrow ==
    \E sc \in {"rising", "falling"} : InitWith(sc, {1}, {MaxPos + 1}, {EmptyLedger}, {MinWarmup}, {0})

SpecNarrow ==
    InitNarrow /\ [][Next]_vars

\* The narrow runs, with calls of the OrderManager arriving during a leg
NextReentrant ==
    \/ Next
    \/ ReentrantCall

SpecReentrant ==
    InitNarrow /\ [][NextReentrant]_vars

(* The SpreadAnalyzer on its own: update is applied to quotes drawn from a
   set, each time followed by check_signal as in _main_loop_iteration, for
   two lengths of the warm-up and two values of min_spread. *)
AnalyzerQuotes ==
    {[bid |-> 100, ask |-> 200], [bid |-> 150, ask |-> 160],
     [bid |-> 190, ask |-> 195]}

MinSpreads == {0, 20}

AnalyzerUpdate ==
    /\ sample_count < MaxSamples
    /\ \E lighter \in AnalyzerQuotes, o1 \in AnalyzerQuotes :
          update(lighter.bid, lighter.ask, o1.bid, o1.ask)
    /\ signal' = check_signal'
    /\ UNCHANGED <<configVars, closeVars, sessionVars, streamVars, adapterVars, busy_calls, tick_obs, ledgerVars,
                   bookVars, trackerVars, next_order_id, executing, stopVars,
                   loop_count, pc, leg, sweep, obsVars>>

InitAnalyzer ==
    InitWith("wide", {1}, {MaxPos}, {EmptyLedger}, {MinWarmup, MinWarmup + 1},
             MinSpreads)

SpecAnalyzer ==
    InitAnalyzer /\ [][AnalyzerUpdate]_vars

(* The main loop with one order size and one position limit, for the ticks
   that find a book incomplete. *)
InitSkip ==
    InitWith("wide", {1}, {MaxPos}, {EmptyLedger}, {MinWarmup}, {0})

SpecSkip ==
    InitSkip /\ [][Next]_vars

(* The main loop in a trending market with a warm-up one sample longer, so
   that a differential can exceed its mean before the warm-up is over. *)
InitWarmup ==
    InitWith("rising", {1}, {MaxPos + 1}, {EmptyLedger}, {MinWarmup + 1}, {0})

SpecWarmup ==
    InitWarmup /\ [][Next]_vars

(* shutdown in detail.  Every awaited call of shutdown either returns (in
   no time, on this clock) or runs into the timeout of its wait_for; main
   waits shutdown_timeout seconds for the whole of shutdown and cancels it
   at the await it has reached by then.  No leg is in flight: the run is
   idle at its loop head until a signal asks it to stop. *)

\* The positions of the supervisor from main's finally clause on
ShutdownPcs ==
    {"shutdown_session", "sd_cancel_o1", "sd_cancel_lighter", "sd_settle",
     "sd_read", "sd_close_o1", "sd_close_lighter", "sd_sleep", "sd_verify",
     "sd_disconnect", "sd_close_log", "sd_notify", "exited"}

\* What shutdown never touches after run has returned
idleVars ==
    <<configVars, sessionVars, streamVars, adapterVars, busy_calls, tick_obs, ledgerVars, spreadVars,
      bookVars, trackerVars, next_order_id, executing, loop_count, signal,
      leg, sweep>>

\* A variant of _pick_position that trusts the venue's answer
_pick_position_api_only(api_pos, local_pos) ==
    api_pos

_pick_position(api_pos, local_pos) ==
    IF Abs(api_pos) >= Abs(local_pos) THEN api_pos ELSE local_pos

\* abs(position) >= min_size, with min_size = order_quantity / 10
NonTrivial(position) ==
    MinSizeDivisor * Abs(position) >= order_quantity

ClosingSide(current_position) ==
    IF current_position > 0 THEN "sell" ELSE "buy"

\* O1ExchangeClient.close_position: nothing for a zero position; the order
\* book is fetched (the call raises when that fails) and a reduce-only
\* immediate-or-cancel order is placed
O1_close_position(current_position, fetch, raw) ==
    IF current_position = 0
    THEN [raised |-> FALSE, sent |-> <<>>]
    ELSE IF fetch = None
    THEN [raised |-> TRUE, sent |-> <<>>]
    ELSE [raised |-> O1_place_order(raw).raised,
          sent |-> <<[venue |-> "o1", side |-> ClosingSide(current_position),
                      size |-> Abs(current_position),
                      order_type |-> "immediate", reduce_only |-> TRUE]>>]

\* LighterClient.close_position: nothing for a zero position, else a taker
\* order with the slippage of a close
Lighter_close_position(current_position, bbo, raw) ==
    IF current_position = 0
    THEN [raised |-> FALSE, sent |-> <<>>]
    ELSE LET res == place_taker_order(ClosingSide(current_position),
                                      Abs(current_position),
                                      close_slippage_permille, bbo, raw)
         IN  [raised |-> res.raised,
              sent |-> IF res.sent = <<>> THEN <<>>
                       ELSE <<[venue |-> "lighter", side |-> res.sent[1].side,
                               size |-> res.sent[1].size,
                               order_type |-> res.sent[1].order_type,
                               reduce_only |-> res.sent[1].reduce_only]>>]

\* The position a venue holds after an order that it filled: a reduce-only
\* order fills as far as it reduces the position, any other order in full
VenueFill(position, order) ==
    LET delta == IF order.side = "sell" THEN -order.size ELSE order.size
    IN  IF ~order.reduce_only
        THEN position + delta
        ELSE IF position > 0 /\ order.side = "sell"
        THEN IF position + delta < 0 THEN 0 ELSE position + delta
        ELSE IF position < 0 /\ order.side = "buy"
        THEN IF position + delta > 0 THEN 0 ELSE position + delta
        ELSE position

\* The account data of a venue that holds the position given
VenueAccount(position) ==
    Some([balance |-> 20, position |-> Some(position)])

\* main's wait_for elapses within the next `duration` seconds
Overruns(duration) ==
    shutdown_clock + duration >= shutdown_timeout

\* shutdown starts the steps given, which take `duration` seconds, and
\* goes on at next_pc, unless main's wait_for cancels it first
TimedStep(steps, duration, next_pc) ==
    IF Overruns(duration)
    THEN /\ pc' = "exited"
         /\ shutdown_clock' = shutdown_timeout
         /\ shutdown_log' = shutdown_log \o steps \o <<"cancelled">>
    ELSE /\ pc' = next_pc
         /\ shutdown_clock' = shutdown_clock + duration
         /\ shutdown_log' = shutdown_log \o steps

TimeTaken(answer, timeout) ==
    IF answer = "timeout" THEN timeout ELSE 0

\* The delivery of SIGINT or SIGTERM: signal_handler while it is installed,
\* nothing once main's finally clause has set SIG_IGN
DeliverSignal ==
    /\ signals.handled + signals.ignored < MaxSignals
    /\ pc # "exited"
    /\ IF Running
       THEN /\ request_stop("user")
            /\ signals' = [signals EXCEPT !.handled = @ + 1]
       ELSE /\ UNCHANGED stopVars
            /\ signals' = [signals EXCEPT !.ignored = @ + 1]
    /\ UNCHANGED <<idleVars, pc, obsVars, venue_position, close_orders,
                   shutdown_log, shutdown_clock, reconcile, alerts>>

\* shutdown, step 0: wait_for(o1.create_session(), 10); an exception or the
\* timeout is logged
ShutdownCreateSession ==
    /\ pc = "shutdown_session"
    /\ \E answer \in {"ok", "error", "timeout"} :
          TimedStep(<<"create_session">>, TimeTaken(answer, session_timeout),
                    "sd_cancel_o1")
    /\ UNCHANGED <<idleVars, stopVars, obsVars, venue_position, close_orders,
                   reconcile, alerts, signals>>

\* shutdown, step 1: wait_for(o1.cancel_all_orders, 15); with no order in
\* the tracker the call awaits nothing
ShutdownCancelAllO1 ==
    /\ pc = "sd_cancel_o1"
    /\ \E answer \in IF active_orders = <<>> THEN {"ok"} ELSE {"ok", "timeout"} :
          TimedStep(<<"cancel_all_o1">>, TimeTaken(answer, cancel_timeout),
                    "sd_cancel_lighter")
    /\ UNCHANGED <<idleVars, stopVars, obsVars, venue_position, close_orders,
                   reconcile, alerts, signals>>

\* shutdown, step 2: wait_for(lighter.cancel_all_orders, 15), which raises
\* nothing itself
ShutdownCancelAllLighter ==
    /\ pc = "sd_cancel_lighter"
    /\ \E answer \in {"ok", "timeout"} :
          TimedStep(<<"cancel_all_lighter">>,
                    TimeTaken(answer, cancel_timeout), "sd_settle")
    /\ UNCHANGED <<idleVars, stopVars, obsVars, venue_position, close_orders,
                   reconcile, alerts, signals>>

\* shutdown, step 3: sleep(1)
ShutdownSettle ==
    /\ pc = "sd_settle"
    /\ TimedStep(<<>>, settle_delay, "sd_read")
    /\ UNCHANGED <<idleVars, stopVars, obsVars, venue_position, close_orders,
                   reconcile, alerts, signals>>

O1ReadAnswers == {"ok", "failed", "timeout"}
LighterReadAnswers == {"ok", "failed", "raised", "timeout"}

\* wait_for(o1.get_position, 10) as _close_all_positions reads it
O1PositionRead(answer) ==
    IF answer = "timeout"
    THEN [raised |-> TRUE, value |-> 0, source |-> "none"]
    ELSE O1_get_position(IF answer = "ok"
                         THEN VenueAccount(venue_position.o1) ELSE None)

\* wait_for(lighter.get_position, 10): the account is asked over REST, and
\* a failed query raises when the feed is stale
LighterPositionRead(answer) ==
    IF answer = "timeout"
    THEN [raised |-> TRUE, value |-> 0, source |-> "none"]
    ELSE Lighter_get_position(answer = "raised", None,
                              IF answer = "ok"
                              THEN VenueAccount(venue_position.lighter)
                              ELSE None)

\* _close_all_positions, the head of an attempt: the ledger and the venues
\* are read (api_* stays 0 when the read raises), a position is picked for
\* each venue, and the function returns when both are below min_size
CloseAttemptRead ==
    /\ pc = "sd_read"
    /\ \E o1_answer \in O1ReadAnswers, lighter_answer \in LighterReadAnswers :
          LET o1_res == O1PositionRead(o1_answer)
              lighter_res == LighterPositionRead(lighter_answer)
              api_o1 == IF o1_res.raised THEN 0 ELSE o1_res.value
              api_lighter == IF lighter_res.raised THEN 0 ELSE lighter_res.value
              o1_pos == _pick_position(api_o1, o1_position)
              lighter_pos == _pick_position(api_lighter, lighter_position)
              duration == TimeTaken(o1_answer, position_timeout)
                              + TimeTaken(lighter_answer, position_timeout)
          IN  /\ TimedStep(IF reconcile.rounds = 0 THEN <<"reconcile">> ELSE <<>>,
                           duration,
                           IF ~NonTrivial(o1_pos) /\ ~NonTrivial(lighter_pos)
                           THEN "sd_disconnect" ELSE "sd_close_o1")
              /\ reconcile' =
                    IF Overruns(duration) THEN reconcile
                    ELSE [reconcile EXCEPT
                            !.o1_read = IF o1_res.raised \/ o1_res.source = "none"
                                        THEN "failed" ELSE "ok",
                            !.lighter_read =
                                IF lighter_res.raised \/ lighter_res.source = "none"
                                THEN "failed" ELSE "ok",
                            !.api_o1 = api_o1,
                            !.api_lighter = api_lighter,
                            !.local_o1 = o1_position,
                            !.local_lighter = lighter_position,
                            !.o1_pos = o1_pos,
                            !.lighter_pos = lighter_pos]
    /\ UNCHANGED <<idleVars, stopVars, obsVars, venue_position, close_orders,
                   alerts, signals>>

O1CloseAnswers == {"book_error", "rejected", "unfilled", "filled", "timeout"}
LighterCloseAnswers == {"no_book", "error", "unfilled", "filled", "timeout"}

\* The orders of a close call as they are recorded: with the attempt
SentIn(round, sent) ==
    [i \in 1..Len(sent) |->
        [venue |-> sent[i].venue, side |-> sent[i].side, size |-> sent[i].size,
         order_type |-> sent[i].order_type,
         reduce_only |-> sent[i].reduce_only, round |-> round]]

\* _close_all_positions: wait_for(o1.close_position(o1_pos), 15) when the
\* picked position is not below min_size; every failure is logged
CloseAttemptO1 ==
    /\ pc = "sd_close_o1"
    /\ IF ~NonTrivial(reconcile.o1_pos)
       THEN /\ pc' = "sd_close_lighter"
            /\ UNCHANGED <<venue_position, close_orders, shutdown_log,
                           shutdown_clock>>
       ELSE \E answer \in O1CloseAnswers :
              LET res == O1_close_position(
                             reconcile.o1_pos,
                             IF answer = "book_error" THEN None ELSE Some(O1Book),
                             IF answer = "rejected" THEN "rejected" ELSE "posted")
                  sent == IF answer = "timeout" THEN <<>> ELSE res.sent
              IN  /\ TimedStep(<<"close_o1">>,
                               TimeTaken(answer, close_timeout),
                               "sd_close_lighter")
                  /\ close_orders' =
                        close_orders \o SentIn(reconcile.rounds, sent)
                  /\ venue_position' =
                        IF answer = "filled"
                        THEN [venue_position EXCEPT
                                !.o1 = VenueFill(@, sent[1])]
                        ELSE venue_position
    /\ UNCHANGED <<idleVars, stopVars, obsVars, reconcile, alerts, signals>>

\* _close_all_positions: wait_for(lighter.close_position(lighter_pos), 15)
\* when the picked position is not below min_size
CloseAttemptLighter ==
    /\ pc = "sd_close_lighter"
    /\ IF ~NonTrivial(reconcile.lighter_pos)
       THEN /\ pc' = "sd_sleep"
            /\ UNCHANGED <<venue_position, close_orders, shutdown_log,
                           shutdown_clock>>
       ELSE \E answer \in LighterCloseAnswers :
              LET side == ClosingSide(reconcile.lighter_pos)
                  res == Lighter_close_position(
                             reconcile.lighter_pos,
                             IF answer # "no_book" THEN LighterHigh
                             ELSE IF side = "sell" THEN LighterNoBid
                             ELSE LighterNoAsk,
                             IF answer = "error" THEN "error" ELSE "ok")
                  sent == IF answer = "timeout" THEN <<>> ELSE res.sent
              IN  /\ TimedStep(<<"close_lighter">>,
                               TimeTaken(answer, close_timeout), "sd_sleep")
                  /\ close_orders' =
                        close_orders \o SentIn(reconcile.rounds, sent)
                  /\ venue_position' =
                        IF answer = "filled"
                        THEN [venue_position EXCEPT
                                !.lighter = VenueFill(@, sent[1])]
                        ELSE venue_position
    /\ UNCHANGED <<idleVars, stopVars, obsVars, reconcile, alerts, signals>>

\* A variant of MoreAttempts that allows one attempt more
MoreAttempts_one_more(attempts_made) ==
    attempts_made <= max_retries

\* for attempt in range(max_retries): another attempt follows
MoreAttempts(attempts_made) ==
    attempts_made < max_retries

\* _close_all_positions, the end of an attempt: sleep(3), then the next
\* attempt or, after max_retries attempts, the final verification
CloseAttemptSleep ==
    /\ pc = "sd_sleep"
    /\ TimedStep(<<>>, ioc_delay,
                 IF MoreAttempts(reconcile.rounds + 1)
                 THEN "sd_read" ELSE "sd_verify")
    /\ reconcile' = IF Overruns(ioc_delay) THEN reconcile
                    ELSE [reconcile EXCEPT !.rounds = @ + 1]
    /\ UNCHANGED <<idleVars, stopVars, obsVars, venue_position, close_orders,
                   alerts, signals>>

\* _close_all_positions, the final verification: both venues are read in one
\* try block; what they hold is picked against the ledger and reported when
\* not below min_size; when a read raises, the ledger alone decides
CloseFinalCheck ==
    /\ pc = "sd_verify"
    /\ \E o1_answer \in O1ReadAnswers, lighter_answer \in LighterReadAnswers :
          LET o1_res == O1PositionRead(o1_answer)
              lighter_res == LighterPositionRead(lighter_answer)
              duration ==
                  IF o1_res.raised THEN TimeTaken(o1_answer, position_timeout)
                  ELSE TimeTaken(lighter_answer, position_timeout)
              final_o1 == _pick_position(o1_res.value, o1_position)
              final_lighter ==
                  _pick_position(lighter_res.value, lighter_position)
          IN  /\ TimedStep(<<"verify">>, duration, "sd_disconnect")
              /\ alerts' =
                    IF Overruns(duration) THEN alerts
                    ELSE IF o1_res.raised \/ lighter_res.raised
                    THEN IF NonTrivial(o1_position) \/ NonTrivial(lighter_position)
                         THEN Append(alerts, [kind |-> "unconfirmed",
                                              o1 |-> o1_position,
                                              lighter |-> lighter_position])
                         ELSE alerts
                    ELSE IF NonTrivial(final_o1) \/ NonTrivial(final_lighter)
                    THEN Append(alerts, [kind |-> "incomplete",
                                         o1 |-> final_o1,
                                         lighter |-> final_lighter])
                    ELSE alerts
    /\ UNCHANGED <<idleVars, stopVars, obsVars, venue_position, close_orders,
                   reconcile, signals>>

\* shutdown, step 5: both adapters disconnect; an exception is logged
ShutdownDisconnect ==
    /\ pc = "sd_disconnect"
    /\ TimedStep(<<"disconnect_lighter", "disconnect_o1">>, 0, "sd_close_log")
    /\ UNCHANGED <<idleVars, stopVars, obsVars, venue_position, close_orders,
                   reconcile, alerts, signals>>

\* shutdown, step 6: data_logger.close(), outside any try block: an
\* exception of a file's close ends shutdown
ShutdownCloseLog ==
    /\ pc = "sd_close_log"
    /\ \E answer \in {"ok", "error"} :
          /\ pc' = IF answer = "ok" THEN "sd_notify" ELSE "exited"
          /\ shutdown_log' =
                shutdown_log \o <<"close_log">>
                    \o IF answer = "ok" THEN <<>> ELSE <<"raised">>
    /\ UNCHANGED <<idleVars, stopVars, obsVars, venue_position, close_orders,
                   shutdown_clock, reconcile, alerts, signals>>

\* shutdown, step 7: the stop notification
ShutdownNotifyStop ==
    /\ pc = "sd_notify"
    /\ tick_msgs' = tick_msgs \cup {"stop"}
    /\ TimedStep(<<"notify_stop">>, 0, "exited")
    /\ UNCHANGED <<idleVars, stopVars, cancel_sent, absent_seen,
                   lighter_orders, trade_log, venue_position, close_orders,
                   reconcile, alerts, signals>>

\* The accounts shutdown may find: flat, hedged as the ledger says, and a
\* position on o1 that the ledger does not know (a fill whose cancel raised,
\* or a position the account held before the run)
ShutdownAccounts ==
    {[ledger |-> <<0, 0>>, venue |-> <<0, 0>>],
     [ledger |-> <<1, -1>>, venue |-> <<1, -1>>],
     [ledger |-> <<0, 0>>, venue |-> <<1, 0>>]}

InitShutdown ==
    InitVenues("wide", {1}, {MaxPos}, ShutdownAccounts, {MinWarmup}, {0})

NextShutdown ==
    \/ DeliverSignal
    \/ RunExit
    \/ ShutdownCreateSession
    \/ ShutdownCancelAllO1
    \/ ShutdownCancelAllLighter
    \/ ShutdownSettle
    \/ CloseAttemptRead
    \/ CloseAttemptO1
    \/ CloseAttemptLighter
    \/ CloseAttemptSleep
    \/ CloseFinalCheck
    \/ ShutdownDisconnect
    \/ ShutdownCloseLog
    \/ ShutdownNotifyStop

SpecShutdown ==
    InitShutdown /\ [][NextShutdown]_vars

(* The venue adapters on their own: the pushes of Lighter's feed, the
   passing of time since the last order book push, and the reads the
   Supervisor and shutdown make, each kept in last_read. *)
AdapterBooks == {LighterHigh, LighterLow}

\* The ages of the feed that are explored: just after a push, and around
\* the threshold
Ages == {0, 1} \cup ((MaxAge - 3)..MaxAge)

\* What the adapters leave alone
programVars ==
    <<configVars, closeVars, sessionVars, streamVars, busy_calls, tick_obs, ledgerVars, spreadVars, bookVars,
      trackerVars, next_order_id, executing, stopVars, loop_count, pc, signal,
      leg, sweep, obsVars>>

\* Time passes without a push of the order book
ClockTick ==
    /\ ws_age # None
    /\ \E age \in Ages :
          /\ age > ws_age[1]
          /\ ws_age' = Some(age)
    /\ UNCHANGED <<ws_orderbook, account_state, last_read, programVars>>

_on_order_book_update ==
    /\ \E order_book \in AdapterBooks : ws_orderbook' = Some(order_book)
    /\ ws_age' = Some(0)
    /\ UNCHANGED <<account_state, last_read, programVars>>

\* _last_ws_account_update is written here and read nowhere
_on_account_update ==
    /\ \E account \in AccountStates : account_state' = Some(account)
    /\ UNCHANGED <<ws_age, ws_orderbook, last_read, programVars>>

ReadRecord(op, rest_failed, res, book) ==
    [op |-> op, age |-> ws_age, rest_failed |-> rest_failed,
     source |-> res.source, raised |-> res.raised, value |-> res.value,
     book |-> book]

LighterGetPosition ==
    /\ \E rest \in AccountRest :
          last_read' = ReadRecord("get_position", rest = None,
                           Lighter_get_position(is_ws_stale, account_state, rest),
                           None)
    /\ UNCHANGED <<ws_age, ws_orderbook, account_state, programVars>>

LighterGetBalance ==
    /\ \E rest \in AccountRest :
          last_read' = ReadRecord("get_balance", rest = None,
                           Lighter_get_balance(is_ws_stale, account_state, rest),
                           None)
    /\ UNCHANGED <<ws_age, ws_orderbook, account_state, programVars>>

LighterGetBBO ==
    /\ last_read' = ReadRecord("get_ws_bbo", FALSE,
                         [source |-> "cache", raised |-> FALSE, value |-> 0],
                         get_ws_bbo)
    /\ UNCHANGED <<ws_age, ws_orderbook, account_state, programVars>>

O1GetPosition ==
    /\ \E raw \in AccountRest :
          last_read' = ReadRecord("o1_get_position", raw = None,
                           O1_get_position(raw), None)
    /\ UNCHANGED <<ws_age, ws_orderbook, account_state, programVars>>

NextAdapter ==
    \/ ClockTick
    \/ _on_order_book_update
    \/ _on_account_update
    \/ LighterGetPosition
    \/ LighterGetBalance
    \/ LighterGetBBO
    \/ O1GetPosition

InitAdapter ==
    InitWith("wide", {1}, {MaxPos}, {EmptyLedger}, {MinWarmup}, {0})

SpecAdapter ==
    InitAdapter /\ [][NextAdapter]_vars

(* The trending runs under the scheduling of the event loop: run iterates
   once a second until the stop flag is set, a leg's coroutine resumes
   after each await and shutdown runs to its end, so a step of the program
   that stays possible is taken.  The operator's signal is not owed. *)
ProgramStep ==
    \/ IterationSample
    \/ IterationBalance
    \/ IterationBalanceConfirm
    \/ IterationTrade
    \/ LegPost
    \/ LegPoll
    \/ LegTimeoutCancel
    \/ LegHedge
    \/ HandleSignalReturn
    \/ RunExit
    \/ ShutdownSession
    \/ ShutdownCancelO1
    \/ ShutdownCancelLighter
    \/ ShutdownFinish

SpecFair ==
    InitNarrow /\ [][Next]_vars /\ WF_vars(ProgramStep)

(* The iteration of the main loop as a function of the ledger it finds: the
   runs of a trending market started from a ledger that is either empty or
   holds MaxPos + 1 units on o1 alone, long or short.  No run from the
   empty ledger reaches the latter two. *)
Ledgers ==
    {EmptyLedger, <<MaxPos + 1, 0>>, <<0 - (MaxPos + 1), 0>>}

InitLedger ==
    InitWith("rising", {1}, {MaxPos + 1}, Ledgers, {MinWarmup}, {0})

SpecLedger ==
    InitLedger /\ [][Next]_vars

----------------------------------------------------------------------------
(* Properties *)

\* C1: a leg that ends with a successful hedge has updated the ledger by one
\* record_arb_trade: o1_position moved by +order_quantity and
\* lighter_position by -order_quantity for long_01 (signs swapped for
\* short_01), the counter of that direction grew by one, and the two
\* changes sum to zero.
C1_HedgedLegIsBalanced ==
    leg.outcome = "hedged" =>
        LET d == IF leg.direction = "long_01"
                 THEN order_quantity ELSE -order_quantity
        IN  /\ o1_position = leg.pos0[1] + d
            /\ lighter_position = leg.pos0[2] - d
            /\ (o1_position - leg.pos0[1]) + (lighter_position - leg.pos0[2]) = 0
            /\ total_long_trades =
                   leg.pos0[3] + (IF leg.direction = "long_01" THEN 1 ELSE 0)
            /\ total_short_trades =
                   leg.pos0[4] + (IF leg.direction = "short_01" THEN 1 ELSE 0)

C1_Witness ==
    /\ pc = "leg_return"
    /\ leg.outcome = "hedged"
    /\ leg.direction = "short_01"
    /\ o1_position = -order_quantity
    /\ lighter_position = order_quantity

\* C2: after every admitted signal and the leg it started, whether the hedge
\* succeeded or failed, |o1_position| <= max_position.
C2_PositionWithinMax ==
    (pc = "leg_return" /\ leg.outcome \in {"hedged", "hedge_failed"}) =>
        Abs(o1_position) <= max_position

\* C3: a hedge order is sent to Lighter only after the maker order of the leg
\* was determined FILLED, at most one is sent per leg, its side is the
\* opposite of the maker side (sell for long_01, buy for short_01) and its
\* size is the maker order size.
C3_HedgeAfterFill ==
    /\ Len(lighter_orders) <= 1
    /\ leg.hedge_calls <= 1
    /\ pc = "leg_hedge" => leg.order_id \in FilledIds
    /\ lighter_orders # <<>> =>
          /\ leg.hedge_calls = 1
          /\ leg.order_id \in FilledIds
          /\ leg.order_id \notin DOMAIN active_orders
          /\ lighter_orders[1].side =
                 (IF leg.o1_side = "buy" THEN "sell" ELSE "buy")
          /\ leg.direction = "long_01" => lighter_orders[1].side = "sell"
          /\ leg.direction = "short_01" => lighter_orders[1].side = "buy"
          /\ lighter_orders[1].size = leg.o1_size
          /\ \E i \in DOMAIN filled_orders :
                /\ filled_orders[i].order_id = leg.order_id
                /\ filled_orders[i].size = lighter_orders[1].size

C3_Witness ==
    /\ pc = "leg_return"
    /\ leg.direction = "long_01"
    /\ Len(lighter_orders) = 1
    /\ lighter_orders[1].side = "sell"
    /\ lighter_orders[1].size = order_quantity
    /\ order_quantity = MaxQty

\* C4: the leg sends at most one cancel for its maker order, and only once
\* the poll window is over and no poll found the order absent; an order the
\* poll found absent (FILLED) is never cancelled, neither by the leg nor by
\* the cancel sweep of shutdown.
C4_CancelOnlyAfterWindow ==
    /\ leg.cancels <= 1
    /\ \A id \in 1..(next_order_id - 1) :
          Cardinality({i \in DOMAIN cancel_sent :
                          cancel_sent[i] = [order_id |-> id, by |-> "leg"]}) <= 1
    /\ leg.cancels = 1 =>
          /\ ~InPollWindow
          /\ leg.polls = leg.elapsed - 2
          /\ leg.order_id \notin absent_seen
    /\ \A i \in DOMAIN cancel_sent : cancel_sent[i].order_id \notin absent_seen

C4_Witness ==
    /\ pc = "exited"
    /\ absent_seen # {}
    /\ \E i \in DOMAIN cancel_sent : cancel_sent[i].by = "leg"
    /\ \E i \in DOMAIN cancel_sent : cancel_sent[i].by = "sweep"

\* C5: when the maker order stayed open for the whole poll window and the
\* timeout cancel reports success, the leg returns no result, no hedge is
\* sent, positions and trade counters are unchanged, and the order record
\* has left the tracker as cancelled (neither active nor filled).
C5_CancelledLegLeavesLedger ==
    leg.cancel_raw = "receipt_ok" =>
        /\ leg.polls = 2 * fill_timeout - 2
        /\ leg.order_id \notin absent_seen
        /\ leg.outcome = "cancelled"
        /\ leg.result = "None"
        /\ pc # "leg_hedge"
        /\ leg.hedge_calls = 0
        /\ lighter_orders = <<>>
        /\ <<o1_position, lighter_position,
             total_long_trades, total_short_trades>> = leg.pos0
        /\ leg.order_id \notin DOMAIN active_orders
        /\ leg.order_id \notin FilledIds

C5_Witness ==
    /\ pc = "leg_return"
    /\ leg.cancel_raw = "receipt_ok"
    /\ leg.polls = 2 * fill_timeout - 2
    /\ leg.order_id = next_order_id - 1
    /\ active_orders = leg.tracker0[1]
    /\ filled_orders = leg.tracker0[2]

\* C6 as stated: when the timeout cancel reports not-found, the order is
\* marked FILLED, exactly one hedge order is sent and the ledger is updated
\* exactly once.
C6_NotFoundSendsOneHedge ==
    (IsNotFound(leg.cancel_raw) /\ pc # "leg_hedge") =>
        /\ leg.order_id \in FilledIds
        /\ Len(lighter_orders) = 1
        /\ leg.outcome \in {"hedged", "hedge_failed"}

\* C6, amended: when the timeout cancel reports not-found, the order is
\* marked FILLED and exactly one hedge is attempted; the attempt sends one
\* order to Lighter, or none when Lighter's book has no quote on the side to
\* hit (the hedge then counts as failed); the ledger is updated exactly once,
\* by record_arb_trade when the hedge succeeded and by update_o1 when not.
C6_NotFoundHedgesOnce ==
    IsNotFound(leg.cancel_raw) =>
        /\ leg.order_id \in FilledIds
        /\ leg.cancels = 1
        /\ pc = "leg_hedge" =>
              /\ leg.hedge_calls = 0
              /\ <<o1_position, lighter_position,
                   total_long_trades, total_short_trades>> = leg.pos0
        /\ pc # "leg_hedge" =>
              LET d == IF leg.o1_side = "buy"
                       THEN order_quantity ELSE -order_quantity
                  quote == IF leg.lighter_side = "sell"
                           THEN leg.hedge_bbo[1].best_bid
                           ELSE leg.hedge_bbo[1].best_ask
              IN  /\ leg.hedge_calls = 1
                  /\ Len(lighter_orders) = (IF quote = None THEN 0 ELSE 1)
                  /\ o1_position = leg.pos0[1] + d
                  /\ IF leg.outcome = "hedged"
                     THEN /\ Len(lighter_orders) = 1
                          /\ lighter_position = leg.pos0[2] - d
                          /\ total_long_trades + total_short_trades =
                                 leg.pos0[3] + leg.pos0[4] + 1
                     ELSE /\ leg.outcome = "hedge_failed"
                          /\ lighter_position = leg.pos0[2]
                          /\ total_long_trades = leg.pos0[3]
                          /\ total_short_trades = leg.pos0[4]

C6_Witness ==
    /\ pc = "leg_return"
    /\ leg.cancel_raw = "exc_not_found"
    /\ leg.outcome = "hedge_failed"
    /\ lighter_orders = <<>>
    /\ leg.order_id \in FilledIds

\* C7: when the timeout cancel fails with an error that is not a not-found
\* error, in the receipt or as an exception, the leg counts as cancelled: no
\* hedge is sent and the ledger is unchanged.
C7_OtherErrorIsCancelled ==
    IsOtherError(leg.cancel_raw) =>
        /\ pc # "leg_hedge"
        /\ leg.hedge_calls = 0
        /\ lighter_orders = <<>>
        /\ leg.order_id \notin FilledIds
        /\ <<o1_position, lighter_position,
             total_long_trades, total_short_trades>> = leg.pos0

\* C8: when the hedge fails after the maker order filled, o1_position moves
\* by the signed maker size (+ for a buy, - for a sell), lighter_position
\* and both trade counters are unchanged, no trade record is written and the
\* leg returns no trade result.
C8_FailedHedgeUpdatesMakerOnly ==
    leg.outcome = "hedge_failed" =>
        /\ leg.order_id \in FilledIds
        /\ o1_position =
               leg.pos0[1] + (IF leg.o1_side = "buy"
                              THEN leg.o1_size ELSE -leg.o1_size)
        /\ lighter_position = leg.pos0[2]
        /\ total_long_trades = leg.pos0[3]
        /\ total_short_trades = leg.pos0[4]
        /\ Len(trade_log) = leg.pos0[3] + leg.pos0[4]
        /\ "trade" \notin tick_msgs
        /\ leg.result = "None"

C8_Witness ==
    /\ pc = "leg_return"
    /\ leg.outcome = "hedge_failed"
    /\ leg.o1_side = "sell"
    /\ Len(lighter_orders) = 1
    /\ o1_position = -order_quantity
    /\ lighter_position = 0

\* C9: when a hedge failed after a maker fill, the notifier has sent an
\* alert for that leg by the time the iteration is over.
C9_FailedHedgeAlerts ==
    (leg.outcome = "hedge_failed" /\ pc = "loop") =>
        tick_msgs \ {"heartbeat", "trade", "stop"} # {}

\* C10: when place_order on o1 fails or is rejected, the leg returns no
\* result: no order record is created, no poll, cancel or hedge is issued,
\* the ledger is unchanged and the busy flag is cleared.
C10_FailedPostAbortsLeg ==
    leg.place_raw \in {"rejected", "error"} =>
        /\ leg.result = "None"
        /\ leg.outcome = "post_failed"
        /\ pc \notin {"leg_poll", "leg_hedge"}
        /\ leg.order_id = 0
        /\ pc = "leg_return" => <<active_orders, filled_orders>> = leg.tracker0
        /\ leg.polls = 0
        /\ leg.cancels = 0
        /\ leg.hedge_calls = 0
        /\ lighter_orders = <<>>
        /\ <<o1_position, lighter_position,
             total_long_trades, total_short_trades>> = leg.pos0
        /\ ~executing
        /\ ~is_busy

C10_Witness ==
    /\ pc = "leg_return"
    /\ leg.place_raw = "rejected"
    /\ leg.direction = "long_01"
    /\ ~executing

\* C11: at most one leg is in flight: the busy flag is set exactly while a
\* leg runs and is clear after every outcome; a call of execute_long_o1 /
\* execute_short_o1 made while the flag is set places no order and changes
\* neither the ledger nor the order records; a leg starts only from the
\* Supervisor's signal step and only while the flag is clear.
C11_OneLegInFlight ==
    /\ [](executing <=> pc \in {"leg_post", "leg_poll", "leg_hedge"})
    /\ [](is_busy <=> executing)
    /\ [][busy_calls' # busy_calls =>
            /\ executing
            /\ UNCHANGED <<ledgerVars, trackerVars, next_order_id, leg, executing,
                           pc, lighter_orders, cancel_sent, absent_seen,
                           trade_log>>]_vars
    /\ [][(pc' = "leg_post" /\ (pc # "leg_post" \/ leg' # leg)) =>
            /\ pc = "tick_risk"
            /\ ~executing
            /\ executing']_vars

C11_Witness ==
    /\ busy_calls = 1
    /\ pc = "leg_return"
    /\ leg.outcome = "hedged"
    /\ ~executing

\* C12: check_risk is true exactly when |o1_position + lighter_position| is
\* at most twice order_quantity, and no leg is started in a tick in which the
\* net exposure is above that level: every leg began from a ledger within
\* it, and a tick that found the check failing started none.
C12_RiskGateAtTwice ==
    /\ check_risk <=> (Abs(o1_position + lighter_position) <= 2 * order_quantity)
    /\ executing => Abs(leg.pos0[1] + leg.pos0[2]) <= 2 * order_quantity
    /\ tick_obs.risk = "paused" =>
          /\ Abs(o1_position + lighter_position) > 2 * order_quantity
          /\ ~executing
          /\ pc \notin {"leg_post", "leg_poll", "leg_hedge", "leg_return"}

C12_Witness ==
    /\ tick_obs.risk = "paused"
    /\ signal = "short_01"
    /\ can_short_o1
    /\ o1_position + lighter_position = -3 * order_quantity
    /\ pc = "loop"

C14_PauseLeadsToStop ==
    (~check_risk) ~> (stop_flag \/ check_risk)

\* C16: the balance check sets the stop flag, with the insufficient-funds
\* reason, only in its confirming read and only when the first read and the
\* confirming read each showed a balance below MIN_BALANCE; a first read
\* below the floor followed by a read with both balances at or above it
\* leaves the stop flag and the reason as they were.
C16_StopNeedsTwoLowReadings ==
    /\ [][(stop_reason' = "insufficient_funds" /\ stop_reason # "insufficient_funds") =>
            /\ pc = "tick_balance_confirm"
            /\ tick_obs'.first = "low"
            /\ tick_obs'.second = "low"
            /\ stop_flag']_vars
    /\ [][(pc = "tick_balance_confirm" /\ tick_obs'.second = "ok") =>
            /\ tick_obs.first = "low"
            /\ UNCHANGED stopVars
            /\ pc' = "tick_risk"]_vars
    /\ [][(pc = "tick_balance" /\ pc' # pc) => UNCHANGED stopVars]_vars

C16_Witness ==
    /\ tick_obs.first = "low"
    /\ tick_obs.second = "low"
    /\ tick_obs.read_low
    /\ ~tick_obs.failed
    /\ stop_flag
    /\ stop_reason = "insufficient_funds"
    /\ pc = "tick_risk"

\* C17: a failed balance query is never counted as a reading below the
\* floor: a check in which a query failed sets no stop flag, so a stop for
\* insufficient funds rests on balances that were read and found low.
C17_FailedQueryNeverStops ==
    (/\ pc = "tick_risk"
     /\ tick_obs.second = "low"
     /\ stop_flag
     /\ stop_reason = "insufficient_funds") =>
        /\ ~tick_obs.failed
        /\ tick_obs.read_low

\* C18: get_position of either adapter never returns zero as the outcome of
\* a failed or unavailable read: a returned zero comes from a read that
\* succeeded, the cached account or the venue's answer.
C18_ZeroOnlyFromSuccessfulRead ==
    (/\ last_read.op \in {"get_position", "o1_get_position"}
     /\ ~last_read.raised
     /\ last_read.value = 0) =>
        last_read.source \in {"cache", "rest"}

\* C19: when Lighter's feed is stale (last push more than 30 s ago) and the
\* venue's query fails as well, get_position and get_balance raise and
\* return nothing.
C19_StaleAndFailedRaises ==
    (/\ last_read.op \in {"get_position", "get_balance"}
     /\ last_read.age # None
     /\ last_read.age[1] > 30
     /\ last_read.rest_failed) =>
        /\ last_read.raised
        /\ last_read.source = "none"

C19_Witness ==
    /\ last_read.op = "get_balance"
    /\ last_read.age = Some(31)
    /\ last_read.rest_failed
    /\ last_read.raised
    /\ account_state # None
    /\ account_state[1].balance = 20

\* C20: Lighter's adapter is stale exactly when the age of the last push is
\* above 30 s; a get_position or get_balance made while stale never
\* returns a value of the pushed account cache; the BBO read returns the
\* last pushed snapshot whatever its age.
C20_StaleBypassesCache ==
    /\ [](is_ws_stale <=> (ws_age # None /\ ws_age[1] > 30))
    /\ []((/\ last_read.op \in {"get_position", "get_balance"}
           /\ last_read.age # None
           /\ last_read.age[1] > 30) => last_read.source # "cache")
    /\ [][(last_read' # last_read /\ last_read'.op = "get_ws_bbo") =>
            last_read'.book = ws_orderbook]_vars

C20_Witness ==
    /\ last_read.op = "get_position"
    /\ last_read.age = Some(31)
    /\ last_read.source = "rest"
    /\ last_read.value = 0
    /\ account_state # None
    /\ account_state[1].position = Some(2)
    /\ ws_orderbook # None

\* C15: in every state of the trading loop the net exposure
\* |o1_position + lighter_position| is at most three times order_quantity.
C15_ExposureWithinThrice ==
    Abs(o1_position + lighter_position) <= 3 * order_quantity

C15_Witness ==
    /\ o1_position + lighter_position = 3 * order_quantity
    /\ leg.outcome = "hedge_failed"
    /\ leg.pos0[1] + leg.pos0[2] = 2 * order_quantity
    /\ pc = "leg_return"

\* C26: request_stop is idempotent: once stop has been requested, a further
\* request, with the same or another reason, leaves the stop flag and the
\* recorded reason as the first request set them.
C26_StopRequestedOnce ==
    [][stop_flag => (stop_flag' /\ stop_reason' = stop_reason)]_vars

\* C28: check_signal returns no direction while fewer than warmup_samples
\* updates have been ingested, whatever the differentials are, and until
\* then no order has been sent to either venue and no leg has started.
C28_NoSignalBeforeWarmup ==
    sample_count < warmup_samples =>
        /\ check_signal = "none"
        /\ signal = "none"
        /\ next_order_id = 1
        /\ active_orders = <<>>
        /\ filled_orders = <<>>
        /\ lighter_orders = <<>>
        /\ cancel_sent = <<>>
        /\ ~executing
        /\ leg = NoLeg

C28_Witness ==
    /\ sample_count = warmup_samples - 1
    /\ sample_count >= 2
    /\ last_diff_long[1] * avg_long[2] > avg_long[1] + long_threshold * avg_long[2]
    /\ signal = "none"
    /\ pc = "loop"
    /\ loop_count = sample_count

\* C29: check_signal equals the reference predicate: long_01 exactly when
\* warmed up and diff_long > max(avg_long + long_threshold, min_spread);
\* otherwise short_01 exactly when warmed up and
\* diff_short > max(avg_short + short_threshold, min_spread); otherwise none.
C29_SignalMatchesReference ==
    sample_count > 0 =>
        signal =
            IF /\ sample_count >= warmup_samples
               /\ last_diff_long[1] * avg_long[2] >
                      avg_long[1] + long_threshold * avg_long[2]
               /\ last_diff_long[1] > min_spread
            THEN "long_01"
            ELSE IF /\ sample_count >= warmup_samples
                    /\ last_diff_short[1] * avg_short[2] >
                           avg_short[1] + short_threshold * avg_short[2]
                    /\ last_diff_short[1] > min_spread
            THEN "short_01"
            ELSE "none"

\* C30: after every update each window holds at most window_size samples,
\* the most recent ones in order, the sample counter has grown by exactly
\* one, and avg_long / avg_short are the arithmetic means of the windows as
\* they are after the eviction.
C30_WindowAndMeans ==
    [][LET Recent(history, x) ==
               LET all == Append(history, x)
               IN  IF Len(all) <= window_size THEN all
                   ELSE SubSeq(all, Len(all) - window_size + 1, Len(all))
       IN  /\ long_history' = Recent(long_history, last_diff_long'[1])
           /\ short_history' = Recent(short_history, last_diff_short'[1])
           /\ Len(long_history') <= window_size
           /\ Len(short_history') <= window_size
           /\ sample_count' = sample_count + 1
           /\ avg_long'[2] > 0
           /\ avg_short'[2] > 0
           /\ avg_long'[1] * Len(long_history') = SeqSum(long_history') * avg_long'[2]
           /\ avg_short'[1] * Len(short_history') = SeqSum(short_history') * avg_short'[2]
      ]_vars

C30_Witness ==
    /\ sample_count = window_size + 1
    /\ Len(long_history) = window_size
    /\ long_history[1] # long_history[window_size]
    /\ last_diff_long = Some(long_history[window_size])
    /\ avg_long = <<SeqSum(long_history), window_size>>

\* C21: shutdown attempts its steps in a fixed order (session of o1, cancel
\* sweep on o1, cancel sweep on Lighter, reconcile-and-close, disconnect of
\* both adapters, closing of the logs, stop notification), sends no close
\* order before the session and both sweeps were attempted, and attempts
\* every step whatever failed or timed out before it: once the program has
\* exited, the log of attempted steps holds all of them, in this order.
C21_EveryStepAttemptedInOrder ==
    LET Named(log) ==
            SelectSeq(log, LAMBDA step :
                step \in {"create_session", "cancel_all_o1",
                          "cancel_all_lighter", "reconcile",
                          "disconnect_lighter", "disconnect_o1", "close_log",
                          "notify_stop"})
    IN  /\ close_orders # <<>> =>
              SubSeq(Named(shutdown_log), 1, 4) =
                  <<"create_session", "cancel_all_o1", "cancel_all_lighter",
                    "reconcile">>
        /\ pc = "exited" =>
              Named(shutdown_log) =
                  <<"create_session", "cancel_all_o1", "cancel_all_lighter",
                    "reconcile", "disconnect_lighter", "disconnect_o1",
                    "close_log", "notify_stop">>

\* C22: in every reconciliation attempt the position acted on for a venue
\* is the one of larger magnitude among the venue's answer and the ledger
\* (the venue's on a tie); after a failed query it is the ledger's; so it is
\* never smaller in magnitude than the ledger's.
C22_PickedIsLargerMagnitude ==
    LET Larger(a, b) == IF Abs(a) >= Abs(b) THEN Abs(a) ELSE Abs(b)
        PickedRight(read, api, local, picked) ==
            /\ Abs(picked) = Larger(api, local)
            /\ picked \in {api, local}
            /\ Abs(api) = Abs(local) => picked = api
            /\ read = "failed" => picked = local
            /\ Abs(picked) >= Abs(local)
    IN  reconcile.o1_read # "none" =>
            /\ reconcile.local_o1 = o1_position
            /\ reconcile.local_lighter = lighter_position
            /\ PickedRight(reconcile.o1_read, reconcile.api_o1,
                           reconcile.local_o1, reconcile.o1_pos)
            /\ PickedRight(reconcile.lighter_read, reconcile.api_lighter,
                           reconcile.local_lighter, reconcile.lighter_pos)

C22_Witness ==
    /\ reconcile.o1_read = "failed"
    /\ reconcile.api_o1 = 0
    /\ reconcile.local_o1 = 1
    /\ reconcile.o1_pos = 1
    /\ reconcile.lighter_read = "ok"
    /\ reconcile.api_lighter = 1
    /\ reconcile.local_lighter = -1
    /\ reconcile.lighter_pos = 1
    /\ pc = "sd_close_o1"

\* C23: every close order shutdown sends, on o1 and on Lighter, is a
\* reduce-only immediate-or-cancel order of positive size, so that closing
\* more than a venue holds opens no position there: no venue ends on the
\* other side of flat than the one it started from.
C23_ClosesAreReduceOnly ==
    /\ \A i \in 1..Len(close_orders) :
          /\ close_orders[i].reduce_only
          /\ close_orders[i].order_type \in {"ioc", "immediate"}
          /\ close_orders[i].size > 0
    /\ venue_position.o1 >= 0
    /\ venue_position.lighter <= 0

\* C24: once the first round of close orders is over, both venues are flat
\* and both have reported zero to the next attempt, reconciliation sends no
\* further close order and raises no residual-position alert.
C24_FlatAfterFirstRoundEndsClosing ==
    [][(/\ reconcile.rounds >= 1
        /\ venue_position = [o1 |-> 0, lighter |-> 0]
        /\ reconcile.o1_read = "ok"
        /\ reconcile.lighter_read = "ok"
        /\ reconcile.api_o1 = 0
        /\ reconcile.api_lighter = 0)
          => (close_orders' = close_orders /\ alerts' = alerts)]_vars

\* C25: when _close_all_positions is over and a venue still holds a position
\* of at least order_quantity / 10, an alert with the residual sizes has
\* been raised, and shutdown ends with the adapters disconnected and the
\* stop notification sent.
C25_ResidualIsAlerted ==
    LET Attempted(step) ==
            \E i \in 1..Len(shutdown_log) : shutdown_log[i] = step
    IN  (/\ pc \in {"sd_disconnect", "sd_close_log", "sd_notify", "exited"}
         /\ NonTrivial(venue_position.o1) \/ NonTrivial(venue_position.lighter))
            => /\ alerts # <<>>
               /\ pc = "exited" =>
                     /\ Attempted("disconnect_lighter")
                     /\ Attempted("disconnect_o1")
                     /\ "stop" \in tick_msgs

C40_NoOpenOrderOutsideLeg ==
    /\ ~executing => DOMAIN active_orders = {}
    /\ Cardinality(DOMAIN active_orders) <= 1

\* C38: once the stop flag is set, no leg is started and so no new maker
\* order is posted, also not in the rest of the tick that set the flag.
C38_NoLegAfterStop ==
    [][(stop_flag /\ ~executing) =>
           (~executing' /\ next_order_id' = next_order_id)]_vars

\* C39: shutdown does not begin while a leg is in flight: in shutdown no leg
\* is executing, and while a leg is executing (also after a stop request)
\* no step belongs to shutdown: no order is cancelled by the sweep and the
\* leg's own steps are the only ones taken; a leg that hedged has its
\* trade in the ledger when shutdown starts.
C39_ShutdownAfterLeg ==
    /\ pc \in {"shutdown_session", "shutdown_cancel_o1", "shutdown_close",
               "exited"} =>
          /\ ~executing
          /\ leg.outcome = "hedged" =>
                /\ o1_position = leg.pos0[1] +
                       (IF leg.o1_side = "buy" THEN order_quantity
                        ELSE -order_quantity)
                /\ lighter_position = leg.pos0[2] -
                       (IF leg.o1_side = "buy" THEN order_quantity
                        ELSE -order_quantity)
    /\ executing =>
          /\ pc \in {"leg_post", "leg_poll", "leg_hedge"}
          /\ sweep = <<>>
          /\ \A i \in 1..Len(cancel_sent) : cancel_sent[i].by = "leg"

C39_Witness ==
    /\ stop_flag
    /\ stop_reason = "user"
    /\ executing
    /\ pc = "leg_hedge"
    /\ leg.order_id \in FilledIds

\* C35: the trade row of a hedged leg records as Lighter's price the top of
\* Lighter's book read just before the hedge (best_bid for a sell, best_ask
\* for a buy), never the limit price of the order sent, and as spread
\* lighter_price - o1_price for long_01 and o1_price - lighter_price for
\* short_01.
C35_SpreadFromSnapshot ==
    leg.outcome = "hedged" =>
        LET row == trade_log[Len(trade_log)]
            top == IF leg.lighter_side = "sell"
                   THEN leg.hedge_bbo[1].best_bid[1]
                   ELSE leg.hedge_bbo[1].best_ask[1]
        IN  /\ row.lighter_price = top
            /\ row.o1_price = leg.o1_price
            /\ row.spread_captured =
                   IF leg.direction = "long_01"
                   THEN top - leg.o1_price ELSE leg.o1_price - top

C35_Witness ==
    /\ leg.outcome = "hedged"
    /\ leg.direction = "long_01"
    /\ Len(lighter_orders) = 1
    /\ lighter_orders[1].price # trade_log[Len(trade_log)].lighter_price
    /\ trade_log[Len(trade_log)].spread_captured =
           leg.hedge_bbo[1].best_bid[1] - leg.o1_price

\* A book without a bid or without an ask
Incomplete(bbo) ==
    \/ bbo = None
    \/ bbo[1].best_bid = None
    \/ bbo[1].best_ask = None

C34_BoundedCloseAttempts ==
    [][/\ reconcile'.rounds <= max_retries
       /\ \A i \in 1..Len(close_orders') :
             /\ close_orders'[i].round < max_retries
             /\ NonTrivial(close_orders'[i].size)
             /\ \A j \in 1..Len(close_orders') :
                   (/\ close_orders'[j].venue = close_orders'[i].venue
                    /\ close_orders'[j].round = close_orders'[i].round)
                      => j = i
       /\ (pc = "sd_read" /\ pc' \in {"sd_disconnect", "sd_close_o1"}) =>
             /\ close_orders' = close_orders
             /\ pc' = "sd_disconnect" <=>
                   (/\ ~NonTrivial(reconcile'.o1_pos)
                    /\ ~NonTrivial(reconcile'.lighter_pos))
       /\ (pc = "sd_close_o1" /\ ~NonTrivial(reconcile.o1_pos)) =>
             close_orders' = close_orders
       /\ (pc = "sd_close_lighter" /\ ~NonTrivial(reconcile.lighter_pos)) =>
             close_orders' = close_orders
      ]_vars

C34_Witness ==
    /\ pc = "sd_verify"
    /\ reconcile.rounds = max_retries
    /\ Len(SelectSeq(close_orders, LAMBDA o : o.venue = "o1")) = max_retries
    /\ Len(SelectSeq(close_orders, LAMBDA o : o.venue = "lighter")) = max_retries

-----------------------------------------------------------------------------
(* O1OrderTracker on its own: the records of the maker orders under every
   order of add_order, mark_filled and mark_cancelled calls, among them the
   calls for an order that is already FILLED or CANCELLED. *)

MaxTracked == 3

\* _execute_arb, the post: the record is added after place_order returned
TrackerPost ==
    /\ next_order_id <= MaxTracked
    /\ \E raw \in PlaceRaw, side \in {"buy", "sell"} :
          /\ leg' = [leg EXCEPT !.place_raw = raw, !.o1_side = side,
                                !.order_id = IF O1_place_order(raw).raised
                                             THEN 0 ELSE next_order_id]
          /\ IF ~O1_place_order(raw).raised
             THEN /\ add_order(next_order_id, side, 10000, order_quantity)
                  /\ next_order_id' = next_order_id + 1
                  /\ UNCHANGED filled_orders
             ELSE UNCHANGED <<trackerVars, next_order_id>>
    /\ UNCHANGED <<configVars, closeVars, sessionVars, streamVars, adapterVars, busy_calls, tick_obs,
                   ledgerVars, spreadVars, bookVars, executing, stopVars,
                   loop_count, pc, signal, sweep, obsVars>>

TrackerMarkFilled ==
    /\ \E order_id \in 1..MaxTracked : mark_filled(order_id)
    /\ UNCHANGED <<configVars, closeVars, sessionVars, streamVars, adapterVars, busy_calls, tick_obs,
                   ledgerVars, spreadVars, bookVars, executing, stopVars,
                   loop_count, pc, signal, sweep, obsVars, next_order_id, leg>>

TrackerMarkCancelled ==
    /\ \E order_id \in 1..MaxTracked : mark_cancelled(order_id)
    /\ UNCHANGED <<configVars, closeVars, sessionVars, streamVars, adapterVars, busy_calls, tick_obs,
                   ledgerVars, spreadVars, bookVars, executing, stopVars,
                   loop_count, pc, signal, sweep, obsVars, next_order_id, leg>>

NextTracker ==
    \/ TrackerPost
    \/ TrackerMarkFilled
    \/ TrackerMarkCancelled

InitTracker ==
    InitWith("wide", 1..MaxQty, {MaxPos}, {EmptyLedger}, {MinWarmup}, {0})

SpecTracker ==
    InitTracker /\ [][NextTracker]_vars

\* The status of an order in the tracker's records: OPEN while it is in
\* active_orders, FILLED once it is in filled_orders; a posted order in
\* neither was removed by mark_cancelled
OrderStatus(active, filled, next_id, order_id) ==
    IF order_id \in DOMAIN active THEN active[order_id].status
    ELSE IF \E i \in DOMAIN filled : filled[i].order_id = order_id THEN "FILLED"
    ELSE IF order_id < next_id THEN "CANCELLED"
    ELSE "NONE"

-----------------------------------------------------------------------------
(* O1Client's trading session on its own: the clock advances, orders are
   placed and cancelled, each after ensure_session, and shutdown forces a
   new session.  The venue answers a CreateSession with a receipt or with
   an error; under shutdown's wait_for the call can also time out. *)

SESSION_DURATION == 3600
RENEW_BEFORE == 300
MaxSigned == 2
MaxKeys == 3

RenewAge == SESSION_DURATION - RENEW_BEFORE
MaxWaits == 3
SessionWaits == {1, RenewAge - 1, RenewAge}
CreateSessionRaw == {"ok", "error"}

\* create_session: a new keypair replaces session_keypair before the action
\* is sent; session_id and session_created_at are set from the receipt
create_session(s, answer) ==
    LET key == s.keys_made + 1
    IN  IF answer = "ok"
        THEN [s EXCEPT !.session_keypair = Some(key), !.keys_made = key,
                       !.session_id = Some(key),
                       !.session_created_at = s.now,
                       !.venue_sessions = @ \cup {<<key, key>>}]
        ELSE [s EXCEPT !.session_keypair = Some(key), !.keys_made = key]

\* A variant of SessionDue that renews only after the renewal age
SessionDue_late(elapsed) ==
    elapsed > SESSION_DURATION - RENEW_BEFORE

\* ensure_session: elapsed >= (SESSION_DURATION - RENEW_BEFORE)
SessionDue(elapsed) ==
    elapsed >= SESSION_DURATION - RENEW_BEFORE

\* ensure_session: the session afterwards, and whether the call raised
ensure_session(s, answer) ==
    IF \/ s.session_id = None
       \/ s.session_keypair = None
       \/ SessionDue(s.now - s.session_created_at)
    THEN [session |-> create_session(s, answer), raised |-> answer # "ok"]
    ELSE [session |-> s, raised |-> FALSE]

\* place_order and cancel_order up to the signature: ensure_session, then
\* the action is signed with session_keypair under session_id
SignedOrderAction(kind) ==
    /\ Len(signed) < MaxSigned
    /\ session.keys_made < MaxKeys
    /\ \E answer \in CreateSessionRaw :
          LET e == ensure_session(session, answer)
          IN  /\ session' = e.session
              /\ signed' =
                    IF e.raised THEN signed
                    ELSE Append(signed,
                                [kind |-> kind,
                                 session_id |-> e.session.session_id,
                                 session_keypair |-> e.session.session_keypair,
                                 age |-> e.session.now -
                                         e.session.session_created_at,
                                 renewed |-> e.session.keys_made #
                                             session.keys_made])
    /\ UNCHANGED <<configVars, closeVars, streamVars, adapterVars, busy_calls,
                   tick_obs, ledgerVars, spreadVars, bookVars, trackerVars,
                   next_order_id, executing, stopVars, loop_count, pc, signal,
                   leg, sweep, obsVars>>

SessionPlaceOrder ==
    SignedOrderAction("place")

SessionCancelOrder ==
    SignedOrderAction("cancel")

\* shutdown, step 0: wait_for(create_session(), timeout=10), failure logged
SessionForceCreate ==
    /\ session.keys_made < MaxKeys
    /\ \E answer \in CreateSessionRaw \cup {"timeout"} :
          session' = create_session(session, answer)
    /\ UNCHANGED <<configVars, closeVars, streamVars, adapterVars, busy_calls,
                   tick_obs, ledgerVars, spreadVars, bookVars, trackerVars,
                   next_order_id, executing, stopVars, loop_count, pc, signal,
                   leg, sweep, obsVars, signed>>

SessionElapse ==
    /\ session.waits < MaxWaits
    /\ \E dt \in SessionWaits :
          session' = [session EXCEPT !.now = @ + dt, !.waits = @ + 1]
    /\ UNCHANGED <<configVars, closeVars, streamVars, adapterVars, busy_calls,
                   tick_obs, ledgerVars, spreadVars, bookVars, trackerVars,
                   next_order_id, executing, stopVars, loop_count, pc, signal,
                   leg, sweep, obsVars, signed>>

NextSession ==
    \/ SessionElapse
    \/ SessionPlaceOrder
    \/ SessionCancelOrder
    \/ SessionForceCreate

InitSession ==
    InitWith("wide", {1}, {MaxPos}, {EmptyLedger}, {MinWarmup}, {0})

SpecSession ==
    InitSession /\ [][NextSession]_vars

\* C32: every order action signed by place_order or cancel_order carries a
\* session, and that session is younger than SESSION_DURATION - RENEW_BEFORE
\* at the signature; a session renewed by the call has age 0.
C32_SessionRenewedBeforeOrder ==
    \A i \in DOMAIN signed :
        /\ signed[i].session_id # None
        /\ signed[i].age < SESSION_DURATION - RENEW_BEFORE
        /\ signed[i].renewed => signed[i].age = 0

C32_Witness ==
    /\ Len(signed) = 2
    /\ signed[1].session_id = Some(1)
    /\ signed[1].age = RenewAge - 1
    /\ signed[2].renewed
    /\ signed[2].kind = "cancel"
    /\ signed[2].session_id = Some(2)
    /\ session.now = RenewAge

\* C37: after a create_session that failed or timed out the client still
\* holds a session the venue knows: session_id and the session signing key
\* are those of one registered session.
C37_FailedCreateKeepsSession ==
    session.session_id # None =>
        /\ session.session_keypair # None
        /\ <<session.session_id[1], session.session_keypair[1]>>
               \in session.venue_sessions

-----------------------------------------------------------------------------
(* LighterClient's stream task on its own: _ws_loop runs a stream client
   next to a watchdog, waits for the first of the two to finish, cancels
   the other, sleeps and creates the next client.  The clock advances and
   pushes arrive while a client runs; the venue may end a stream at any
   time, and disconnect cancels the task.  The event loop resumes a
   coroutine whose sleep or wait is over, which is the fairness assumed
   for the steps of the watchdog and of _ws_loop; none is assumed for the
   venue, the clock or disconnect. *)

MaxClients == 3

\* A variant of WatchdogTrips that waits for twice the threshold
WatchdogTrips_twice_threshold ==
    /\ ws_age # None
    /\ ws_age[1] > 2 * _ws_stale_threshold

\* _ws_stale_watchdog: _last_ws_ob_update > 0 and age > threshold
WatchdogTrips ==
    /\ ws_age # None
    /\ ws_age[1] > _ws_stale_threshold

\* _ws_stale_watchdog: the initial sleep(_ws_stale_threshold) is over
WatchdogWake ==
    /\ ws_stream.task = "running"
    /\ ws_stream.watchdog = "sleeping"
    /\ ws_stream' = [ws_stream EXCEPT !.watchdog = "polling"]
    /\ UNCHANGED <<configVars, closeVars, sessionVars, adapterVars, busy_calls,
                   tick_obs, ledgerVars, spreadVars, bookVars, trackerVars,
                   next_order_id, executing, stopVars, loop_count, pc, signal,
                   leg, sweep, obsVars>>

\* _ws_stale_watchdog: one check after sleep(5); a stale feed closes the
\* client's socket (_force_ws_reconnect) and ends the watchdog
WatchdogCheck ==
    /\ ws_stream.task = "running"
    /\ ws_stream.watchdog = "polling"
    /\ IF WatchdogTrips
       THEN ws_stream' = [ws_stream EXCEPT !.watchdog = "done",
                                           !.client = "closed"]
       ELSE UNCHANGED ws_stream
    /\ UNCHANGED <<configVars, closeVars, sessionVars, adapterVars, busy_calls,
                   tick_obs, ledgerVars, spreadVars, bookVars, trackerVars,
                   next_order_id, executing, stopVars, loop_count, pc, signal,
                   leg, sweep, obsVars>>

\* ws_client.run_async returns or raises: the venue ended the stream
StreamEnds ==
    /\ ws_stream.task = "running"
    /\ ws_stream.client = "running"
    /\ ws_stream' = [ws_stream EXCEPT !.client = "closed"]
    /\ UNCHANGED <<configVars, closeVars, sessionVars, adapterVars, busy_calls,
                   tick_obs, ledgerVars, spreadVars, bookVars, trackerVars,
                   next_order_id, executing, stopVars, loop_count, pc, signal,
                   leg, sweep, obsVars>>

\* _ws_loop: asyncio.wait returned, the pending task is cancelled and
\* awaited, sleep(3) starts
WsLoopReap ==
    /\ ws_stream.task = "running"
    /\ ws_stream.client = "closed"
    /\ ws_stream' = [ws_stream EXCEPT !.client = "backoff",
                                      !.watchdog = "stopped"]
    /\ UNCHANGED <<configVars, closeVars, sessionVars, adapterVars, busy_calls,
                   tick_obs, ledgerVars, spreadVars, bookVars, trackerVars,
                   next_order_id, executing, stopVars, loop_count, pc, signal,
                   leg, sweep, obsVars>>

\* _ws_loop: after sleep(3) a new client is created and the loop starts it
\* together with a new watchdog
WsLoopReconnect ==
    /\ ws_stream.task = "running"
    /\ ws_stream.client = "backoff"
    /\ ws_stream.clients < MaxClients
    /\ ws_stream' = [ws_stream EXCEPT !.client = "running",
                                      !.watchdog = "sleeping",
                                      !.clients = @ + 1]
    /\ UNCHANGED <<configVars, closeVars, sessionVars, adapterVars, busy_calls,
                   tick_obs, ledgerVars, spreadVars, bookVars, trackerVars,
                   next_order_id, executing, stopVars, loop_count, pc, signal,
                   leg, sweep, obsVars>>

\* disconnect: the stream task is cancelled and the socket closed
LighterDisconnect ==
    /\ ws_stream.task = "running"
    /\ ws_stream' = [ws_stream EXCEPT !.task = "cancelled",
                                      !.client = "closed",
                                      !.watchdog = "stopped"]
    /\ UNCHANGED <<configVars, closeVars, sessionVars, adapterVars, busy_calls,
                   tick_obs, ledgerVars, spreadVars, bookVars, trackerVars,
                   next_order_id, executing, stopVars, loop_count, pc, signal,
                   leg, sweep, obsVars>>

\* A push of the order book arrives on the running client
StreamPush ==
    /\ ws_stream.task = "running"
    /\ ws_stream.client = "running"
    /\ _on_order_book_update

NextStream ==
    \/ ClockTick
    \/ StreamPush
    \/ StreamEnds
    \/ WatchdogWake
    \/ WatchdogCheck
    \/ WsLoopReap
    \/ WsLoopReconnect
    \/ LighterDisconnect

InitStream ==
    InitWith("wide", {1}, {MaxPos}, {EmptyLedger}, {MinWarmup}, {0})

SpecStream ==
    /\ InitStream
    /\ [][NextStream]_vars
    /\ WF_vars(WatchdogWake)
    /\ WF_vars(WatchdogCheck)
    /\ WF_vars(WsLoopReap)
    /\ WF_vars(WsLoopReconnect)

\* C36: whenever the last push is older than the stale threshold while the
\* stream task runs, the task eventually runs a new client (or a push has
\* arrived, or disconnect has cancelled the task), again after every
\* reconnect; and a stream task without a running client eventually runs
\* one, until it is cancelled.
C36_StaleStreamIsReplaced ==
    \A n \in 1..(MaxClients - 1) :
        /\ (/\ is_ws_stale
            /\ ws_stream.task = "running"
            /\ ws_stream.clients = n)
              ~> \/ ws_stream.clients > n /\ ws_stream.client = "running"
                 \/ ~is_ws_stale
                 \/ ws_stream.task = "cancelled"
        /\ (/\ ws_stream.task = "running"
            /\ ws_stream.client # "running"
            /\ ws_stream.clients = n)
              ~> \/ ws_stream.client = "running"
                 \/ ws_stream.task = "cancelled"

C36_Witness ==
    /\ ws_stream.task = "running"
    /\ ws_stream.clients = 3
    /\ ws_stream.client = "running"
    /\ ws_stream.watchdog = "polling"
    /\ is_ws_stale

====
